---------------------------- MODULE Spec2Model ----------------------------
(***************************************************************************)
(* Cart extraction of the Credit Card Recommender extension (extension-v2):*)
(* the extractor registry, the shared helpers of BaseExtractor, and the    *)
(* concrete extraction strategies, as state machines over a DOM snapshot.  *)
(*                                                                         *)
(* Text is a sequence of one-character strings.  The falsy text values of  *)
(* the source (null, undefined, the empty string) are all the empty        *)
(* sequence: the source only ever tests them for truthiness.               *)
(***************************************************************************)
EXTENDS Integers, Sequences, FiniteSets, TLC

VARIABLES
    extractors,         \* ExtractorRegistry.extractors: the Map, as the sequence of its values in insertion order
    fallbackExtractor,  \* ExtractorRegistry.fallbackExtractor (NoExtractor = null)
    dom,                \* the document the content script runs in
    call,               \* the operation that ran last, with its arguments and its outcome
    keyOrder,           \* history: the registered siteIds, by the time the siteId entered the Map
    regOrder,           \* history: the registered strategies, by the time of their register() call
    storage,            \* chrome.storage.local: the keys openaiKey, cachedCards and lastCardsFetch
    now,                \* Date.now(), in milliseconds
    content,            \* the content script in the tab: how far it has run, and the window globals it has defined
    popup               \* the popup: its store, and where handleGetRecommendation stands

vars == <<extractors, fallbackExtractor, dom, call, keyOrder, regOrder, storage, now,
          content, popup>>

\* the extension's state outside the extractor registry and the page
browser == <<storage, now, content, popup>>

(***************************************************************************)
(* Text                                                                    *)
(***************************************************************************)
Upper == <<"A","B","C","D","E","F","G","H","I","J","K","L","M",
           "N","O","P","Q","R","S","T","U","V","W","X","Y","Z">>
Lower == <<"a","b","c","d","e","f","g","h","i","j","k","l","m",
           "n","o","p","q","r","s","t","u","v","w","x","y","z">>
DigitChars == <<"0","1","2","3","4","5","6","7","8","9">>

Range(f) == {f[i] : i \in DOMAIN f}

UpperSet == Range(Upper)
DigitSet == Range(DigitChars)
\* the characters of the regular-expression class \w
WordSet == Range(Upper) \cup Range(Lower) \cup Range(DigitChars) \cup {"_"}

IsDigit(c) == c \in DigitSet
IsSpace(c) == c \in {" ", "\t", "\n"}
IsWordChar(c) == c \in WordSet

DigitVal(c) == (CHOOSE i \in DOMAIN DigitChars : DigitChars[i] = c) - 1

LowerChar(c) ==
    IF c \in UpperSet THEN Lower[CHOOSE i \in DOMAIN Upper : Upper[i] = c] ELSE c

\* String.prototype.toLowerCase
toLowerCase(s) == [i \in DOMAIN s |-> LowerChar(s[i])]

\* String.prototype.trim
RECURSIVE SkipSpaces(_, _, _)
SkipSpaces(s, i, step) ==
    IF i < 1 \/ i > Len(s) \/ ~IsSpace(s[i]) THEN i ELSE SkipSpaces(s, i + step, step)

trim(s) == SubSeq(s, SkipSpaces(s, 1, 1), SkipSpaces(s, Len(s), -1))

\* String.prototype.includes
includes(s, p) ==
    \E i \in 1..(Len(s) - Len(p) + 1) : SubSeq(s, i, i + Len(p) - 1) = p

NaN == [nan |-> TRUE, val |-> 0]
Num(n) == [nan |-> FALSE, val |-> n]

\* parseInt(s, 10): leading white space, an optional sign, then the longest
\* run of decimal digits; NaN when there is no digit there.
RECURSIVE DigitsValue(_, _, _)
DigitsValue(s, i, acc) ==
    IF i <= Len(s) /\ IsDigit(s[i])
    THEN DigitsValue(s, i + 1, 10 * acc + DigitVal(s[i]))
    ELSE acc

parseInt(s) ==
    LET t == trim(s)
        signed == Len(t) > 0 /\ t[1] \in {"-", "+"}
        first == IF signed THEN 2 ELSE 1
    IN  IF first > Len(t) \/ ~IsDigit(t[first]) THEN NaN
        ELSE LET mag == DigitsValue(t, first, 0)
             IN  Num(IF signed /\ t[1] = "-" THEN -mag ELSE mag)

(***************************************************************************)
(* DOM.  A node has a tag, a value (form controls) and its textContent.    *)
(* An element of a cart is a function from the selectors that match below  *)
(* it to the first node each one matches: querySelector.  The document is  *)
(* a function from the selectors that match in it to the sequence of       *)
(* elements each one matches, in document order: querySelectorAll.         *)
(***************************************************************************)
NullNode == [tag |-> "null", value |-> <<>>, textContent |-> <<>>]
TextNode(t) == [tag |-> "span", value |-> <<>>, textContent |-> t]
InputNode(v) == [tag |-> "input", value |-> v, textContent |-> <<>>]
SelectNode(v) == [tag |-> "select", value |-> v, textContent |-> v]

querySelector(element, selector) ==
    IF selector \in DOMAIN element.q THEN element.q[selector] ELSE NullNode

\* a malformed node: reading its text or its descendants raises an exception
IsMalformed(element) == "malformed" \in DOMAIN element

querySelectorAll(document, selector) ==
    IF selector \in DOMAIN document THEN document[selector] ELSE <<>>

(***************************************************************************)
(* BaseExtractor helpers                                                   *)
(***************************************************************************)
\* extractText with a selector: trimmed text of the first match, or null
extractText(element, selector) ==
    LET targetElement == querySelector(element, selector)
    IN  IF targetElement.tag = "null" THEN <<>> ELSE trim(targetElement.textContent)

OrOne(v) == IF v.nan THEN 1 ELSE v.val

extractQuantityFromInput(element) ==
    IF element.tag = "null" THEN 1
    ELSE IF element.tag = "input" THEN OrOne(parseInt(element.value))
    ELSE IF element.tag = "select" THEN OrOne(parseInt(element.value))
    ELSE OrOne(parseInt(trim(element.textContent)))

DedupKey(item) == trim(toLowerCase(item.name))

\* the values of the `seen` Map, in insertion order
RECURSIVE DedupFrom(_, _, _)
DedupFrom(items, i, seen) ==
    IF i > Len(items) THEN seen
    ELSE DedupFrom(items, i + 1,
            IF \E k \in DOMAIN seen : DedupKey(seen[k]) = DedupKey(items[i])
            THEN seen
            ELSE Append(seen, items[i]))

\* seen.set(key, item) for every item: the last record of a name replaces the first
RECURSIVE DedupLastFrom(_, _, _)
DedupLastFrom(items, i, seen) ==
    IF i > Len(items) THEN seen
    ELSE DedupLastFrom(items, i + 1,
            IF \E k \in DOMAIN seen : DedupKey(seen[k]) = DedupKey(items[i])
            THEN [k \in DOMAIN seen |->
                    IF DedupKey(seen[k]) = DedupKey(items[i]) THEN items[i] ELSE seen[k]]
            ELSE Append(seen, items[i]))

deduplicateItemsLastWins(items) == DedupLastFrom(items, 1, <<>>)

\* the key is item.name as it is: no toLowerCase, no trim
RECURSIVE DedupExactFrom(_, _, _)
DedupExactFrom(items, i, seen) ==
    IF i > Len(items) THEN seen
    ELSE DedupExactFrom(items, i + 1,
            IF \E k \in DOMAIN seen : seen[k].name = items[i].name
            THEN seen
            ELSE Append(seen, items[i]))

deduplicateItemsExactName(items) == DedupExactFrom(items, 1, <<>>)

deduplicateItems(items) == DedupFrom(items, 1, <<>>)


MinNameLength == 3
MaxNameLength == 500

NoiseWords ==
    { <<"r","e","m","o","v","e">>, <<"d","e","l","e","t","e">>, <<"e","d","i","t">>,
      <<"s","a","v","e">>, <<"q","u","a","n","t","i","t","y">>, <<"q","t","y">>,
      <<"p","r","i","c","e">>, <<"t","o","t","a","l">>,
      <<"s","u","b","t","o","t","a","l">>, <<"c","h","e","c","k","o","u","t">>,
      <<"c","o","n","t","i","n","u","e">>,
      <<"c","a","r","t">>, <<"b","a","s","k","e","t">>, <<"b","a","g">>,
      <<"i","t","e","m">>, <<"i","t","e","m","s">>,
      <<"p","r","o","d","u","c","t">>, <<"p","r","o","d","u","c","t","s">> }

\* the four noisePatterns, tested on the trimmed text
isNoiseText(text) ==
    LET t == trim(text)
    IN  \/ toLowerCase(t) \in NoiseWords
        \/ t # <<>> /\ \A i \in DOMAIN t : IsDigit(t[i])
        \/ t # <<>> /\ \A i \in DOMAIN t : ~IsWordChar(t[i]) \/ t[i] = "_"

isValidItem(item) ==
    /\ item.name # <<>>
    /\ Len(item.name) >= MinNameLength
    /\ Len(item.name) <= MaxNameLength
    /\ ~isNoiseText(item.name)

\* const item = { name }; if (price) item.price = price; if (quantity) item.quantity = quantity;
\* a quantity of 0 stands for every falsy quantity (0, NaN, null, undefined)
CartItem(name, price, quantity) ==
    [f \in {"name"} \cup (IF price # <<>> THEN {"price"} ELSE {})
                    \cup (IF quantity # 0 THEN {"quantity"} ELSE {}) |->
        IF f = "name" THEN name ELSE IF f = "price" THEN price ELSE quantity]

\* what one element contributes: a record, nothing (null), or an exception
Built(item) == [threw |-> FALSE, items |-> <<item>>]
Skipped == [threw |-> FALSE, items |-> <<>>]
Threw == [threw |-> TRUE, items |-> <<>>]

\* selectors that are no CSS selector: querySelector(All) raises a SyntaxError
InvalidSelectors == {"[["}

\* items.push(item) for every element whose record is built, valid or not
RECURSIVE CollectBuilt(_, _, _)
CollectBuilt(outcomes, i, items) ==
    IF i > Len(outcomes) THEN items
    ELSE CollectBuilt(outcomes, i + 1,
            IF ~outcomes[i].threw /\ outcomes[i].items # <<>>
            THEN Append(items, outcomes[i].items[1])
            ELSE items)

\* forEach without the try: the element whose record raises ends the loop and
\* nothing is returned
RECURSIVE CollectOrAbort(_, _, _)
CollectOrAbort(outcomes, i, items) ==
    IF i > Len(outcomes) THEN items
    ELSE IF outcomes[i].threw THEN <<>>
    ELSE CollectOrAbort(outcomes, i + 1,
            IF outcomes[i].items # <<>> /\ isValidItem(outcomes[i].items[1])
            THEN Append(items, outcomes[i].items[1])
            ELSE items)

\* items.push(item) for every element whose record is built and valid; an
\* element whose record raises is skipped by the catch inside forEach
RECURSIVE CollectValid(_, _, _)
CollectValid(outcomes, i, items) ==
    IF i > Len(outcomes) THEN items
    ELSE CollectValid(outcomes, i + 1,
            IF ~outcomes[i].threw /\ outcomes[i].items # <<>>
               /\ isValidItem(outcomes[i].items[1])
            THEN Append(items, outcomes[i].items[1])
            ELSE items)

Returned(items) == [threw |-> FALSE, items |-> items]

(***************************************************************************)
(* ConfigExtractor.  The custom extractors of a config are functions of    *)
(* the element; the model takes the ones that read an attribute of it      *)
(* (name and price as the attribute's text, quantity as its parseInt).     *)
(***************************************************************************)
getAttribute(element, attr) ==
    IF attr \in DOMAIN element.attrs THEN element.attrs[attr] ELSE <<>>

\* the brand is never put before the name
ConfigNameOnly(config, element) ==
    IF config.customNameExtractor # ""
    THEN getAttribute(element, config.customNameExtractor)
    ELSE LET brandText == IF config.brandSelector # ""
                          THEN extractText(element, config.brandSelector)
                          ELSE <<>>
             nameText == extractText(element, config.nameSelector)
         IN  IF nameText # <<>> THEN nameText ELSE brandText

ConfigName(config, element) ==
    IF config.customNameExtractor # ""
    THEN getAttribute(element, config.customNameExtractor)
    ELSE LET brandText == IF config.brandSelector # ""
                          THEN extractText(element, config.brandSelector)
                          ELSE <<>>
             nameText == extractText(element, config.nameSelector)
             shouldCombine == config.combineBrandName # "false"
         IN  IF brandText # <<>> /\ nameText # <<>> /\ shouldCombine
             THEN trim(brandText \o <<" ">> \o nameText)
             ELSE IF nameText # <<>> THEN nameText ELSE brandText

ConfigPrice(config, element) ==
    IF config.customPriceExtractor # ""
    THEN getAttribute(element, config.customPriceExtractor)
    ELSE IF config.priceSelector # ""
    THEN extractText(element, config.priceSelector)
    ELSE <<>>

\* extractQuantityFromInput(qtyElement) without the test of qtyElement
ConfigQuantityUnguarded(config, element) ==
    IF config.customQuantityExtractor # ""
    THEN LET qtyValue == parseInt(getAttribute(element, config.customQuantityExtractor))
         IN  IF qtyValue.nan THEN 0 ELSE qtyValue.val
    ELSE IF config.quantitySelector # ""
    THEN extractQuantityFromInput(querySelector(element, config.quantitySelector))
    ELSE 0

ConfigQuantity(config, element) ==
    IF config.customQuantityExtractor # ""
    THEN LET qtyValue == parseInt(getAttribute(element, config.customQuantityExtractor))
         IN  IF qtyValue.nan THEN 0 ELSE qtyValue.val
    ELSE IF config.quantitySelector # ""
    THEN LET qtyElement == querySelector(element, config.quantitySelector)
         IN  IF qtyElement.tag # "null" THEN extractQuantityFromInput(qtyElement) ELSE 0
    ELSE 0

\* the selectors extractItem hands to querySelector for this element
ConfigSelectorsUsed(config, element) ==
    (IF config.customNameExtractor = ""
     THEN {config.nameSelector} \cup (IF config.brandSelector # "" THEN {config.brandSelector} ELSE {})
     ELSE {})
    \cup (IF config.customPriceExtractor = "" /\ config.priceSelector # ""
          THEN {config.priceSelector} ELSE {})
    \cup (IF config.customQuantityExtractor = "" /\ config.quantitySelector # ""
          THEN {config.quantitySelector} ELSE {})

ConfigExtractItem(config, element) ==
    IF IsMalformed(element) THEN Threw ELSE
    IF config.customNameExtractor = ""
       /\ ({config.nameSelector, config.brandSelector} \ {""}) \cap InvalidSelectors # {}
    THEN Threw
    ELSE LET name == ConfigName(config, element)
         IN  IF name = <<>> THEN Skipped
             ELSE IF ConfigSelectorsUsed(config, element) \cap InvalidSelectors # {}
             THEN Threw
             ELSE Built(CartItem(name, ConfigPrice(config, element),
                                 ConfigQuantity(config, element)))

ConfigExtract(config, document) ==
    IF config.itemSelector \in InvalidSelectors THEN Threw
    ELSE LET itemElements == querySelectorAll(document, config.itemSelector)
         IN  IF Len(itemElements) = 0 THEN Returned(<<>>)
             ELSE Returned(deduplicateItems(CollectValid(
                    [i \in DOMAIN itemElements |-> ConfigExtractItem(config, itemElements[i])],
                    1, <<>>)))

(***************************************************************************)
(* SephoraExtractor                                                        *)
(***************************************************************************)
buildFullName(brand, productName) ==
    IF brand # <<>> /\ productName # <<>>
    THEN trim(brand \o <<" ">> \o productName)
    ELSE IF productName # <<>> THEN productName ELSE brand

extractSephoraQuantity(element) ==
    LET quantitySelect == querySelector(element, "select[data-at=\"sku_qty\"]")
    IN  IF quantitySelect.tag # "null" THEN extractQuantityFromInput(quantitySelect) ELSE 1

extractSephoraItem(element) ==
    IF IsMalformed(element) THEN Threw ELSE
    LET brand == extractText(element, "[data-at=\"bsk_sku_brand\"]")
        productName == extractText(element, "[data-at=\"bsk_sku_name\"]")
        fullName == buildFullName(brand, productName)
    IN  IF fullName = <<>> THEN Skipped
        ELSE Built(CartItem(fullName,
                            extractText(element, "[data-at=\"bsk_sku_price\"]"),
                            extractSephoraQuantity(element)))

SephoraExtract(document) ==
    LET cartItems == querySelectorAll(document, "[data-at=\"product_refinement\"]")
    IN  IF Len(cartItems) = 0 THEN Returned(<<>>)
        ELSE Returned(deduplicateItems(CollectValid(
                [i \in DOMAIN cartItems |-> extractSephoraItem(cartItems[i])], 1, <<>>)))

(***************************************************************************)
(* SafewayExtractor                                                        *)
(***************************************************************************)
\* text.replace(/[^0-9]/g, '')
DigitsOnly(s) == SelectSeq(s, IsDigit)

\* quantityText ? parseInt(quantityText, 10) : null, as 0 when null
StepperQuantity(node) ==
    LET quantityText == DigitsOnly(trim(node.textContent))
    IN  IF quantityText # <<>> THEN parseInt(quantityText).val ELSE 0

extractSafewayQuantity(element) ==
    LET stepperAmount == querySelector(element, ".stepper-amount")
        mobileQty == querySelector(element, ".stepper-qty-round")
        quantityInput == querySelector(element, "input[type=\"number\"]")
    IN  IF stepperAmount.tag # "null" /\ StepperQuantity(stepperAmount) > 0
        THEN StepperQuantity(stepperAmount)
        ELSE IF mobileQty.tag # "null" /\ StepperQuantity(mobileQty) > 0
        THEN StepperQuantity(mobileQty)
        ELSE IF quantityInput.tag # "null" /\ extractQuantityFromInput(quantityInput) > 0
        THEN extractQuantityFromInput(quantityInput)
        ELSE 1

extractSafewayItem(element) ==
    IF IsMalformed(element) THEN Threw ELSE
    LET productName == extractText(element, "a.product-name")
    IN  IF productName = <<>> THEN Skipped
        ELSE Built(CartItem(productName,
                            extractText(element, "b.main-netAmount"),
                            extractSafewayQuantity(element)))

SafewayExtract(document) ==
    LET cartItems == querySelectorAll(document, "app-cart-item")
    IN  IF Len(cartItems) = 0 THEN Returned(<<>>)
        ELSE Returned(deduplicateItems(CollectValid(
                [i \in DOMAIN cartItems |-> extractSafewayItem(cartItems[i])], 1, <<>>)))

(***************************************************************************)
(* BestBuyExtractor                                                        *)
(***************************************************************************)
\* the first of the selectors, in order, under which extractText finds text
RECURSIVE FirstText(_, _, _)
FirstText(element, selectors, i) ==
    IF i > Len(selectors) THEN <<>>
    ELSE IF extractText(element, selectors[i]) # <<>>
    THEN extractText(element, selectors[i])
    ELSE FirstText(element, selectors, i + 1)

extractBestBuyQuantity(element) ==
    LET quantitySelect == querySelector(element, ".fluid-item__quantity select.tb-select")
    IN  IF quantitySelect.tag # "null" THEN extractQuantityFromInput(quantitySelect) ELSE 1

extractBestBuyItem(element) ==
    IF IsMalformed(element) THEN Threw ELSE
    LET productName == FirstText(element,
            << "h2.cart-item__title-heading > a.cart-item__title",
               "a.cart-item__title",
               "h2.cart-item__title-heading" >>, 1)
        price == FirstText(element,
            << ".fluid-item__price .price-block__primary-price .price-block__inline",
               ".price-block__primary-price" >>, 1)
    IN  IF productName = <<>> THEN Skipped
        ELSE Built(CartItem(trim(productName), trim(price), extractBestBuyQuantity(element)))

\* the elements of the first item selector, in order, that matches any
BestBuyCartItems(document) ==
    IF Len(querySelectorAll(document, "ul.item-list > li > section.card")) # 0
    THEN querySelectorAll(document, "ul.item-list > li > section.card")
    ELSE IF Len(querySelectorAll(document, "section.card")) # 0
    THEN querySelectorAll(document, "section.card")
    ELSE querySelectorAll(document, ".fluid-item")

BestBuyExtract(document) ==
    LET cartItems == BestBuyCartItems(document)
    IN  IF Len(cartItems) = 0 THEN Returned(<<>>)
        ELSE Returned(deduplicateItems(CollectValid(
                [i \in DOMAIN cartItems |-> extractBestBuyItem(cartItems[i])], 1, <<>>)))

(***************************************************************************)
(* GenericExtractor                                                        *)
(***************************************************************************)
cartSelectors ==
    << "[id*=\"cart\"]", "[class*=\"cart\"]", "[id*=\"basket\"]", "[class*=\"basket\"]",
       "[id*=\"checkout\"]", "[class*=\"checkout\"]", "[id*=\"bag\"]", "[class*=\"bag\"]",
       "[data-test*=\"cart\"]", "[data-testid*=\"cart\"]" >>

containerItemSelector ==
    "li, .cart-item, .product, .line-item, [class*=\"item\"], [class*=\"product\"]"

candidateSelector ==
    "li, .product, .cart-item, .line-item, div[class*=\"item\"], div[class*=\"product\"]"

nameSelectors ==
    << ".product-title", ".item-title", ".product-name", ".name", "[class*=\"title\"]",
       "[class*=\"name\"]", "[data-test*=\"name\"]", "[data-testid*=\"name\"]",
       "h2", "h3", "h4", "a" >>

priceSelectors ==
    << ".price", ".product-price", "[class*=\"price\"]", "[data-price]",
       "[data-test*=\"price\"]", "[data-testid*=\"price\"]" >>

quantitySelectors ==
    << "[class*=\"quantity\"]", "[class*=\"qty\"]", "input[type=\"number\"]",
       "[data-quantity]", "[data-test*=\"quantity\"]", "[data-testid*=\"quantity\"]" >>

GenericNameLimit == 200
GenericTextLimit == 300
GenericTextMin == 3
GenericResultLimit == 20

\* text.split('\n')
RECURSIVE Split(_, _, _, _)
Split(s, i, line, lines) ==
    IF i > Len(s) THEN Append(lines, line)
    ELSE IF s[i] = "\n" THEN Split(s, i + 1, <<>>, Append(lines, line))
    ELSE Split(s, i + 1, Append(line, s[i]), lines)

NonBlank(line) == trim(line) # <<>>

\* the match of /\$\d+(\.\d{2})?/ in text, or the empty text when there is none
PriceMatch(text) ==
    LET starts == {i \in 1..(Len(text) - 1) : text[i] = "$" /\ IsDigit(text[i + 1])}
    IN  IF starts = {} THEN <<>>
        ELSE LET at == CHOOSE i \in starts : \A j \in starts : i <= j
                 after == {j \in (at + 1)..(Len(text) + 1) : j > Len(text) \/ ~IsDigit(text[j])}
                 stop == CHOOSE j \in after : \A k \in after : j <= k
                 cents == /\ stop + 2 <= Len(text)
                          /\ text[stop] = "."
                          /\ IsDigit(text[stop + 1])
                          /\ IsDigit(text[stop + 2])
             IN  SubSeq(text, at, IF cents THEN stop + 2 ELSE stop - 1)

RECURSIVE NameBySelectors(_, _)
NameBySelectors(element, i) ==
    IF i > Len(nameSelectors) THEN <<>>
    ELSE LET nameElement == querySelector(element, nameSelectors[i])
             name == trim(nameElement.textContent)
         IN  IF nameElement.tag # "null" /\ nameElement.textContent # <<>>
                /\ Len(name) > 0 /\ Len(name) < GenericNameLimit
             THEN name
             ELSE NameBySelectors(element, i + 1)

extractItemName(element) ==
    IF NameBySelectors(element, 1) # <<>> THEN NameBySelectors(element, 1)
    ELSE LET text == trim(element.textContent)
             lines == SelectSeq(Split(text, 1, <<>>, <<>>), NonBlank)
         IN  IF Len(text) > GenericTextMin /\ Len(text) < GenericTextLimit /\ Len(lines) > 0
                /\ Len(trim(lines[1])) > GenericTextMin
                /\ Len(trim(lines[1])) < GenericNameLimit
             THEN trim(lines[1])
             ELSE <<>>

RECURSIVE PriceBySelectors(_, _)
PriceBySelectors(element, i) ==
    IF i > Len(priceSelectors) THEN <<>>
    ELSE LET priceElement == querySelector(element, priceSelectors[i])
             price == trim(priceElement.textContent)
         IN  IF priceElement.tag # "null" /\ priceElement.textContent # <<>>
                /\ "$" \in Range(price)
             THEN price
             ELSE PriceBySelectors(element, i + 1)

extractPrice(element) ==
    IF PriceBySelectors(element, 1) # <<>> THEN PriceBySelectors(element, 1)
    ELSE PriceMatch(element.textContent)

\* the first quantity above 0 under the quantitySelectors; 0 for undefined
RECURSIVE extractQuantity(_, _)
extractQuantity(element, i) ==
    IF i > Len(quantitySelectors) THEN 0
    ELSE LET qtyElement == querySelector(element, quantitySelectors[i])
         IN  IF qtyElement.tag # "null" /\ extractQuantityFromInput(qtyElement) > 0
             THEN extractQuantityFromInput(qtyElement)
             ELSE extractQuantity(element, i + 1)

\* if (name) { ... const cartItem = { name }; ... }
NamedItem(name, item) ==
    IF name = <<>> THEN Skipped
    ELSE Built(CartItem(name, extractPrice(item), extractQuantity(item, 1)))

ContainerItem(item) ==
    IF IsMalformed(item) THEN Threw ELSE NamedItem(extractItemName(item), item)

\* the elements the two nested forEach loops of one cart selector visit, in order
RECURSIVE ItemsOfContainers(_, _)
ItemsOfContainers(containers, i) ==
    IF i > Len(containers) THEN <<>>
    ELSE (IF containerItemSelector \in DOMAIN containers[i].qa
          THEN containers[i].qa[containerItemSelector] ELSE <<>>)
         \o ItemsOfContainers(containers, i + 1)

RECURSIVE VisitedItems(_, _)
VisitedItems(document, s) ==
    IF s > Len(cartSelectors) THEN <<>>
    ELSE ItemsOfContainers(querySelectorAll(document, cartSelectors[s]), 1)
         \o VisitedItems(document, s + 1)

findItemsInCartContainers(document) ==
    LET visited == VisitedItems(document, 1)
    IN  CollectValid([i \in DOMAIN visited |-> ContainerItem(visited[i])], 1, <<>>)

\* if (name && name.length > 3 && name.length < 200) { ... }
PricedItem(name, price) ==
    IF name # <<>> /\ Len(name) > GenericTextMin /\ Len(name) < GenericNameLimit
    THEN Built(CartItem(name, price, 0))
    ELSE Skipped

PricePatternItem(element) ==
    IF IsMalformed(element) THEN Threw ELSE
    IF PriceMatch(element.textContent) # <<>> /\ Len(element.textContent) < GenericTextLimit
    THEN PricedItem(extractItemName(element), PriceMatch(element.textContent))
    ELSE Skipped

findItemsByPricePattern(document) ==
    LET candidates == querySelectorAll(document, candidateSelector)
    IN  CollectValid([i \in DOMAIN candidates |-> PricePatternItem(candidates[i])], 1, <<>>)

\* Strategy 2 runs whatever Strategy 1 found
AndByPricePattern(cartItems, document) == cartItems \o findItemsByPricePattern(document)

\* Strategy 2 runs only if (items.length === 0) after Strategy 1
OrByPricePattern(cartItems, document) ==
    IF Len(cartItems) > 0 THEN cartItems ELSE findItemsByPricePattern(document)

\* uniqueItems.slice(0, 20)
Limited(uniqueItems) ==
    SubSeq(uniqueItems, 1,
           IF Len(uniqueItems) < GenericResultLimit
           THEN Len(uniqueItems) ELSE GenericResultLimit)

\* the scans extract() runs, given what Strategy 1 returned
ScansRun(cartItems) ==
    IF Len(cartItems) > 0 THEN <<"findItemsInCartContainers">>
    ELSE <<"findItemsInCartContainers", "findItemsByPricePattern">>

\* slice(0, 20) before deduplicateItems
GenericExtractLimitedFirst(document) ==
    Returned(deduplicateItems(Limited(
        OrByPricePattern(findItemsInCartContainers(document), document))))

\* neither scan catches an exception: the first element that raises in a scan
\* that runs ends extract()
GenericRaises(document) ==
    LET visited == VisitedItems(document, 1)
        candidates == querySelectorAll(document, candidateSelector)
    IN  \/ \E i \in DOMAIN visited : ContainerItem(visited[i]).threw
        \/ /\ Len(findItemsInCartContainers(document)) = 0
           /\ \E i \in DOMAIN candidates : PricePatternItem(candidates[i]).threw

GenericExtract(document) ==
    IF GenericRaises(document) THEN Threw
    ELSE Returned(Limited(deduplicateItems(
            OrByPricePattern(findItemsInCartContainers(document), document))))

(***************************************************************************)
(* Strategies.  An extractor object is a record: its identity, its class   *)
(* (kind), siteId, urlPatterns and, for a ConfigExtractor, its config.     *)
(***************************************************************************)
NoConfig ==
    [itemSelector |-> "", nameSelector |-> "", brandSelector |-> "", priceSelector |-> "",
     quantitySelector |-> "", combineBrandName |-> "unset", customNameExtractor |-> "",
     customPriceExtractor |-> "", customQuantityExtractor |-> ""]

NoExtractor ==
    [id |-> "null", kind |-> "null", siteId |-> "", urlPatterns |-> <<>>, config |-> NoConfig]

Sephora ==
    [id |-> "SephoraExtractor", kind |-> "sephora", siteId |-> "sephora",
     urlPatterns |-> << <<"s","e","p","h","o","r","a",".","c","o","m">>, <<"s","e","p","h","o","r","a",".","c","a">> >>, config |-> NoConfig]

Safeway ==
    [id |-> "SafewayExtractor", kind |-> "safeway", siteId |-> "safeway",
     urlPatterns |-> << <<"s","a","f","e","w","a","y",".","c","o","m">>, <<"a","l","b","e","r","t","s","o","n","s",".","c","o","m">>, <<"v","o","n","s",".","c","o","m">>, <<"j","e","w","e","l","o","s","c","o",".","c","o","m">> >>, config |-> NoConfig]

BestBuy ==
    [id |-> "BestBuyExtractor", kind |-> "bestbuy", siteId |-> "bestbuy",
     urlPatterns |-> << <<"b","e","s","t","b","u","y",".","c","o","m">>, <<"b","e","s","t","b","u","y",".","c","a">> >>, config |-> NoConfig]

Generic ==
    [id |-> "GenericExtractor", kind |-> "generic", siteId |-> "generic",
     urlPatterns |-> << <<"*">> >>, config |-> NoConfig]

\* new ConfigExtractor(SIMPLE_SITE_CONFIGS[0])
Ulta ==
    [id |-> "ConfigExtractor(ulta)", kind |-> "config", siteId |-> "ulta",
     urlPatterns |-> << <<"u","l","t","a",".","c","o","m">> >>,
     config |-> [NoConfig EXCEPT !.itemSelector = "[data-test=\"cart-item\"]",
                                 !.brandSelector = ".product-brand",
                                 !.nameSelector = ".product-name",
                                 !.priceSelector = ".product-price",
                                 !.quantitySelector = "input.quantity",
                                 !.combineBrandName = "true"]]

\* the patterns are compared as they are written, not lower-cased
canHandleExactPatterns(extractor, hostname) ==
    IF extractor.kind = "generic" THEN FALSE
    ELSE LET lowerHostname == toLowerCase(hostname)
         IN  \E i \in DOMAIN extractor.urlPatterns :
                includes(lowerHostname, extractor.urlPatterns[i])

\* the generic strategy's '*' matches all sites
canHandleWildcard(extractor, hostname) ==
    IF extractor.kind = "generic" THEN TRUE
    ELSE LET lowerHostname == toLowerCase(hostname)
         IN  \E i \in DOMAIN extractor.urlPatterns :
                includes(lowerHostname, toLowerCase(extractor.urlPatterns[i]))

canHandle(extractor, hostname) ==
    IF extractor.kind = "generic" THEN FALSE
    ELSE LET lowerHostname == toLowerCase(hostname)
         IN  \E i \in DOMAIN extractor.urlPatterns :
                includes(lowerHostname, toLowerCase(extractor.urlPatterns[i]))

\* A hand-written subclass of BaseExtractor that returns what it reads,
\* unvalidated and not deduplicated: a record per li of
\* document.querySelector('#cart'), named li.querySelector('.product-name').textContent.
\* It raises a TypeError when the document has no #cart or an li no .product-name.
RawListExtract(document) ==
    LET cart == querySelectorAll(document, "#cart")
        lis == IF "li" \in DOMAIN cart[1].qa THEN cart[1].qa["li"] ELSE <<>>
    IN  IF Len(cart) = 0 THEN Threw
        ELSE IF \E i \in DOMAIN lis : querySelector(lis[i], ".product-name").tag = "null"
        THEN Threw
        ELSE Returned([i \in DOMAIN lis |->
                CartItem(querySelector(lis[i], ".product-name").textContent, <<>>, 0)])

\* the selectors extract() hands to document.querySelectorAll for the cart
\* lines, in the order of the code
ItemSelectors(extractor) ==
    CASE extractor.kind = "sephora" -> << "[data-at=\"product_refinement\"]" >>
      [] extractor.kind = "safeway" -> << "app-cart-item" >>
      [] extractor.kind = "bestbuy" ->
            << "ul.item-list > li > section.card", "section.card", ".fluid-item" >>
      [] extractor.kind = "config" -> << extractor.config.itemSelector >>
      [] OTHER -> <<>>

\* those of them extract() gets to: each is tried only if (cartItems.length === 0)
\* after the one before it
RECURSIVE SelectorsTried(_, _, _)
SelectorsTried(selectors, document, i) ==
    IF i > Len(selectors) THEN <<>>
    ELSE IF selectors[i] \in InvalidSelectors
            \/ Len(querySelectorAll(document, selectors[i])) # 0
    THEN << selectors[i] >>
    ELSE << selectors[i] >> \o SelectorsTried(selectors, document, i + 1)

\* extractor.extract() on the document, by the class of the extractor
Extract(extractor, document) ==
    CASE extractor.kind = "sephora" -> SephoraExtract(document)
      [] extractor.kind = "safeway" -> SafewayExtract(document)
      [] extractor.kind = "bestbuy" -> BestBuyExtract(document)
      [] extractor.kind = "config" -> ConfigExtract(extractor.config, document)
      [] extractor.kind = "generic" -> GenericExtract(document)
      [] extractor.kind = "rawlist" -> RawListExtract(document)

\* the catch reports success like the try
ExtractionResultAlwaysSuccess(extractor, outcome) ==
    [items |-> outcome.items, extractorId |-> extractor.siteId, success |-> TRUE, error |-> ""]

\* the try and the catch of extractWithMetadata around this.extract()
ExtractionResult(extractor, outcome) ==
    IF outcome.threw
    THEN [items |-> <<>>, extractorId |-> extractor.siteId, success |-> FALSE,
          error |-> "Unknown error"]
    ELSE [items |-> outcome.items, extractorId |-> extractor.siteId, success |-> TRUE,
          error |-> ""]

extractWithMetadata(extractor, document) ==
    ExtractionResult(extractor, Extract(extractor, document))

(***************************************************************************)
(* ExtractorRegistry                                                       *)
(***************************************************************************)
MapHas(map, siteId) == \E i \in DOMAIN map : map[i].siteId = siteId

MapGet(map, siteId) ==
    IF MapHas(map, siteId) THEN map[CHOOSE i \in DOMAIN map : map[i].siteId = siteId]
    ELSE NoExtractor

\* delete, then set: a key already there moves to the end
MapSetReinsert(map, extractor) ==
    Append(SelectSeq(map, LAMBDA e : e.siteId # extractor.siteId), extractor)

\* a key already there keeps its extractor
MapSetIfAbsent(map, extractor) ==
    IF MapHas(map, extractor.siteId) THEN map ELSE Append(map, extractor)

\* Map.prototype.set: a key already there keeps its place
MapSet(map, extractor) ==
    IF MapHas(map, extractor.siteId)
    THEN [i \in DOMAIN map |-> IF map[i].siteId = extractor.siteId THEN extractor ELSE map[i]]
    ELSE Append(map, extractor)

MapDelete(map, siteId) == SelectSeq(map, LAMBDA e : e.siteId # siteId)

RECURSIVE MapSetAll(_, _, _)
MapSetAll(map, list, i) ==
    IF i > Len(list) THEN map ELSE MapSetAll(MapSet(map, list[i]), list, i + 1)

Found(extractor) == [threw |-> FALSE, extractor |-> extractor, error |-> ""]

\* the fallback is taken before the registered strategies are asked
findExtractorFallbackFirst(map, fallback, hostname) ==
    LET matching == {i \in DOMAIN map : canHandle(map[i], hostname)}
    IN  IF fallback # NoExtractor THEN Found(fallback)
        ELSE IF matching # {}
        THEN Found(map[CHOOSE i \in matching : \A j \in matching : i <= j])
        ELSE [threw |-> TRUE, extractor |-> NoExtractor,
              error |-> "No fallback extractor registered!"]

findExtractor(map, fallback, hostname) ==
    LET matching == {i \in DOMAIN map : canHandle(map[i], hostname)}
    IN  IF matching # {}
        THEN Found(map[CHOOSE i \in matching : \A j \in matching : i <= j])
        ELSE IF fallback # NoExtractor THEN Found(fallback)
        ELSE [threw |-> TRUE, extractor |-> NoExtractor,
              error |-> "No fallback extractor registered!"]

\* isSupported(hostname): whether a registered extractor handles the hostname
isSupported(map, hostname) == \E i \in DOMAIN map : canHandle(map[i], hostname)

\* getInfo()
getInfo(map, fallback) ==
    [registered |-> Len(map),
     sites |-> [i \in DOMAIN map |-> map[i].siteId],
     hasFallback |-> fallback # NoExtractor]

NoResult == [items |-> <<>>, extractorId |-> "", success |-> FALSE, error |-> ""]

\* call: op, the hostname or input given, whether it raised and with what error,
\* the extractor resolved, the extractors whose extract() ran, the
\* ExtractionResult, the items returned, a number returned, the scans
\* GenericExtractor.extract ran, any other value returned and, of the call
\* before it when that was the same call with nothing done in between, the
\* strategy selected and the items returned; for getActiveCards, whether it
\* went on to fetch from the database; for a strategy's extract(), the item
\* selectors it tried
NoCall ==
    [op |-> "none", hostname |-> <<>>, input |-> <<>>, threw |-> FALSE, error |-> "",
     found |-> NoExtractor, invoked |-> <<>>, result |-> NoResult, items |-> <<>>,
     value |-> 0, scans |-> <<>>, returned |-> <<>>, previous |-> <<>>,
     queried |-> FALSE, tried |-> <<>>]

\* registry.extract(hostname): the call's record, with the extractors whose
\* extract() ran
RegistryExtract(map, fallback, document, hostname) ==
    LET f == findExtractor(map, fallback, hostname)
    IN  IF f.threw
        THEN [NoCall EXCEPT !.hostname = hostname, !.threw = TRUE, !.error = f.error]
        ELSE LET result == extractWithMetadata(f.extractor, document)
             IN  [NoCall EXCEPT !.hostname = hostname, !.found = f.extractor,
                                !.invoked = <<f.extractor>>, !.result = result]

\* extractItems with a catch of its own: an error of findExtractor becomes []
ResultItemsOrEmpty(c) ==
    IF c.threw THEN [c EXCEPT !.threw = FALSE, !.items = <<>>]
    ELSE [c EXCEPT !.items = c.result.items]

\* extractItems that deduplicates what the strategy returned
ResultItemsDeduplicated(c) ==
    IF c.threw THEN c ELSE [c EXCEPT !.items = deduplicateItems(c.result.items)]

\* return result.items
ResultItems(c) == IF c.threw THEN c ELSE [c EXCEPT !.items = c.result.items]

\* registry.extractItems(hostname)
RegistryExtractItems(map, fallback, document, hostname) ==
    ResultItems(RegistryExtract(map, fallback, document, hostname))

\* the entry point without its try and catch
Uncaught(c) == c

\* the try and the catch of the entry point: return items, or [] when the call raised
Caught(c) == IF c.threw THEN [c EXCEPT !.threw = FALSE, !.items = <<>>] ELSE c

\* window.__CC_extractCartItems() on a page of this hostname
CCExtractCartItems(map, fallback, document, hostname) ==
    Caught(RegistryExtractItems(map, fallback, document, hostname))

(***************************************************************************)
(* Inputs: strategies written against the public classes, pages, hosts.    *)
(***************************************************************************)
\* new ConfigExtractor({siteId: 'sephora', ...}): a second strategy under Sephora's siteId
SephoraByConfig ==
    [id |-> "ConfigExtractor(sephora)", kind |-> "config", siteId |-> "sephora",
     urlPatterns |-> << <<"s","e","p","h","o","r","a",".","c","o","m">> >>,
     config |-> [NoConfig EXCEPT !.itemSelector = "[data-at=\"product_refinement\"]",
                                 !.brandSelector = "[data-at=\"bsk_sku_brand\"]",
                                 !.nameSelector = "[data-at=\"bsk_sku_name\"]",
                                 !.priceSelector = "[data-at=\"bsk_sku_price\"]",
                                 !.combineBrandName = "false"]]

\* a config whose patterns overlap those of other strategies, with custom extractors
Beauty ==
    [id |-> "ConfigExtractor(beauty)", kind |-> "config", siteId |-> "beauty",
     urlPatterns |-> << <<"s","e","p","h","o","r","a">>, <<"s","h","o","p">> >>,
     config |-> [NoConfig EXCEPT !.itemSelector = "[data-test=\"cart-item\"]",
                                 !.nameSelector = ".product-name",
                                 !.customNameExtractor = "data-name",
                                 !.customPriceExtractor = "data-price",
                                 !.customQuantityExtractor = "data-qty"]]

RawList ==
    [id |-> "RawListExtractor", kind |-> "rawlist", siteId |-> "rawlist",
     urlPatterns |-> << <<"e","x","a","m","p","l","e","-","s","h","o","p",".","c","o","m">> >>, config |-> NoConfig]

\* a config whose itemSelector is no CSS selector
Broken ==
    [id |-> "ConfigExtractor(broken)", kind |-> "config", siteId |-> "broken",
     urlPatterns |-> << <<"b","r","o","k","e","n",".","t","e","s","t">> >>,
     config |-> [NoConfig EXCEPT !.itemSelector = "[[", !.nameSelector = ".product-name"]]

Hostnames ==
    { <<"w","w","w",".","s","e","p","h","o","r","a",".","c","o","m">>,
      <<"W","W","W",".","E","x","a","m","p","l","e","-","S","h","o","p",".","C","O","M">>,
      <<"t","o","t","a","l","l","y","-","u","n","k","n","o","w","n","-","s","t","o","r","e",".","t","e","s","t">> }

WidgetA == <<"W","i","d","g","e","t"," ","A">>
WidgetALower == <<" ","w","i","d","g","e","t"," ","a"," ">>
WidgetB == <<"W","i","d","g","e","t"," ","B">>
LongName == [i \in 1..(MaxNameLength + 1) |-> "x"]

\* a cart line of a page: the texts of its brand, name and price nodes, the
\* value of its quantity control (when it has one) and its data-name attribute
Row(brand, name, price, hasQty, qty, attr) ==
    [brand |-> brand, name |-> name, price |-> price, hasQty |-> hasQty, qty |-> qty,
     attr |-> attr]

RowPool ==
    { Row(<<>>, WidgetA, <<"$","1","0">>, TRUE, <<"2">>, WidgetA),
      Row(<<>>, WidgetALower, <<"$","5",".","0","0">>, FALSE, <<>>, <<>>),
      Row(<<"A","c","m","e">>, WidgetB, <<>>, TRUE, <<"0">>, <<>>),
      Row(<<>>, <<"R","e","m","o","v","e">>, <<"$","5",".","0","0">>, FALSE, <<>>, <<"R","e","m","o","v","e">>),
      Row(<<>>, <<"a","b">>, <<>>, TRUE, <<"x">>, <<"1","2">>),
      Row(<<"A","c","m","e">>, <<>>, <<"$","1","0">>, FALSE, <<>>, <<>>),
      Row(<<>>, WidgetB, <<"$","5",".","0","0">>, TRUE, <<"-","3">>, <<" ","a"," "," ">>),
      Row(<<>>, LongName, <<>>, FALSE, <<>>, <<"-","-","-">>) }

NoNodes == [sel \in {} |-> NullNode]
NoElements == [sel \in {} |-> <<>>]
NoAttributes == [a \in {} |-> <<>>]

\* the nodes of a set of <<selector, node>> pairs, without the null nodes
NodeMap(pairs) ==
    [sel \in {p[1] : p \in {x \in pairs : x[2].tag # "null"}} |->
        (CHOOSE p \in pairs : p[1] = sel)[2]]

OptText(text) == IF text = <<>> THEN NullNode ELSE TextNode(text)

\* one cart line, marked up so that every strategy's selectors find its parts
ItemElement(row) ==
    [q |-> NodeMap({
        <<"[data-at=\"bsk_sku_brand\"]", OptText(row.brand)>>,
        <<"[data-at=\"bsk_sku_name\"]", OptText(row.name)>>,
        <<"[data-at=\"bsk_sku_price\"]", OptText(row.price)>>,
        <<"select[data-at=\"sku_qty\"]", IF row.hasQty THEN SelectNode(row.qty) ELSE NullNode>>,
        <<"a.product-name", OptText(row.name)>>,
        <<"b.main-netAmount", OptText(row.price)>>,
        <<".stepper-amount", IF row.hasQty THEN TextNode(row.qty) ELSE NullNode>>,
        <<"a.cart-item__title", OptText(row.name)>>,
        <<".price-block__primary-price", OptText(row.price)>>,
        <<".fluid-item__quantity select.tb-select",
          IF row.hasQty THEN SelectNode(row.qty) ELSE NullNode>>,
        <<".product-brand", OptText(row.brand)>>,
        <<".product-name", OptText(row.name)>>,
        <<".product-price", OptText(row.price)>>,
        <<"input.quantity", IF row.hasQty THEN InputNode(row.qty) ELSE NullNode>>,
        <<"input[type=\"number\"]", IF row.hasQty THEN InputNode(row.qty) ELSE NullNode>> }),
     qa |-> NoElements,
     attrs |-> [a \in {"data-name"} |-> row.attr]
               @@ [a \in {"data-price"} |-> row.price]
               @@ [a \in {"data-qty"} |-> row.qty],
     textContent |-> row.brand \o <<" ">> \o row.name \o <<"\n">> \o row.price]

\* a page with these elements as its cart lines; inContainer: the lines are the
\* li of a #cart list
PageOf(elements, inContainer) ==
    LET cart == [q |-> NoNodes,
                 qa |-> [sel \in {"li", containerItemSelector} |-> elements],
                 attrs |-> NoAttributes,
                 textContent |-> <<>>]
    IN  [sel \in {"[data-at=\"product_refinement\"]", "app-cart-item", "section.card",
                  "[data-test=\"cart-item\"]", candidateSelector} |-> elements]
        @@ [sel \in {"#cart", "[id*=\"cart\"]"} |-> IF inContainer THEN <<cart>> ELSE <<>>]

\* a page with these cart lines
Page(rows, inContainer) == PageOf([i \in DOMAIN rows |-> ItemElement(rows[i])], inContainer)

MaxItems == 2

RECURSIVE SeqsUpTo(_, _)
SeqsUpTo(S, n) ==
    IF n = 0 THEN {<<>>}
    ELSE LET shorter == SeqsUpTo(S, n - 1)
         IN  shorter \cup {Append(q, x) : q \in {r \in shorter : Len(r) = n - 1}, x \in S}

Pages == {Page(rows, c) : rows \in SeqsUpTo(RowPool, MaxItems), c \in BOOLEAN}

(***************************************************************************)
(* The card service: getActiveCards over chrome.storage.local, the clock   *)
(* and the answer of the database.  A missing key of the storage is the    *)
(* falsy value the source tests for: no cards, and 0 for the time stamp.   *)
(***************************************************************************)
ONE_HOUR == 60 * 60 * 1000

NoStorage == [openaiKey |-> <<>>, cachedCards |-> <<>>, lastCardsFetch |-> 0]

getCachedCards(store) == store.cachedCards

\* both keys are written, the second with the time of the call
setCachedCards(store, cards, clock) ==
    [store EXCEPT !.cachedCards = cards, !.lastCardsFetch = clock]

areCachedCardsStale(store, clock) ==
    IF store.lastCardsFetch = 0 THEN TRUE
    ELSE clock - store.lastCardsFetch > ONE_HOUR

clearAllStorage(store) == NoStorage

getOpenAIKey(store) == store.openaiKey

\* a row of the table credit_cards, and the row that is null
CardRow(id, fee, description) ==
    [id |-> id, name |-> id, annual_fee |-> fee, description |-> description,
     is_active |-> TRUE]
NullRow == [id |-> "null"]

\* the CreditCard of a row: the description defaults to the empty string
CreditCard(row) ==
    [id |-> row.id, name |-> row.name, annualFee |-> row.annual_fee,
     description |-> row.description, isActive |-> row.is_active]

\* what the client answers: no client for lack of credentials, an error, or
\* the rows (none when data is null or empty)
Unconfigured == [kind |-> "unconfigured", message |-> "", data |-> <<>>]
QueryError(message) == [kind |-> "error", message |-> message, data |-> <<>>]
QueryData(rows) == [kind |-> "data", message |-> "", data |-> rows]

CardsThrew(error) == [threw |-> TRUE, error |-> error, cards |-> <<>>]
CardsFetched(cards) == [threw |-> FALSE, error |-> "", cards |-> cards]

\* the body of the try block from "Fetch from Supabase" to the transformed cards
FetchCards(response) ==
    IF response.kind = "unconfigured"
    THEN CardsThrew("Supabase credentials not configured")
    ELSE IF response.kind = "error"
    THEN CardsThrew("Supabase error: " \o response.message)
    ELSE IF Len(response.data) = 0
    THEN CardsThrew("No active cards found in database")
    ELSE IF \E i \in DOMAIN response.data : response.data[i] = NullRow
    THEN CardsThrew("TypeError")
    ELSE CardsFetched([i \in DOMAIN response.data |-> CreditCard(response.data[i])])

\* the cache is used without a fetch
UseCache(store, clock, forceRefresh) ==
    /\ ~forceRefresh
    /\ ~areCachedCardsStale(store, clock)
    /\ Len(getCachedCards(store)) > 0

\* the catch block raises the error again, whatever is cached
CardsRethrow(store, fetched) == fetched

\* the catch block: the cached cards if there are any, else the error again
CardsFallback(store, fetched) ==
    IF Len(getCachedCards(store)) > 0
    THEN CardsFetched(getCachedCards(store))
    ELSE fetched

\* getActiveCards(forceRefresh): what it returns or raises, whether it went
\* on to fetch from the database, and the storage it leaves
getActiveCards(store, clock, forceRefresh, response) ==
    IF UseCache(store, clock, forceRefresh)
    THEN [outcome |-> CardsFetched(getCachedCards(store)), queried |-> FALSE,
          storage |-> store]
    ELSE LET fetched == FetchCards(response)
         IN  IF fetched.threw
             THEN [outcome |-> CardsFallback(store, fetched), queried |-> TRUE,
                   storage |-> store]
             ELSE [outcome |-> fetched, queried |-> TRUE,
                   storage |-> setCachedCards(store, fetched.cards, clock)]

\* the content script before its first statement, on a page of this hostname:
\* nothing defined on window, no listener, no banner in the page
NoContent(hostname) ==
    [pc |-> "initializeExtractors", defined |-> {}, hostname |-> hostname, banner |-> <<>>]

\* the popup as it opens: the store empty, handleGetRecommendation not running.
\* Of the run: the retries of the poll, the checks made, the milliseconds
\* waited, whether a check found the entry point, the extractions invoked and
\* the results they returned, the recommendations asked for (each with the items
\* given) and the banners created.  A cartItems of null is the empty sequence:
\* the store is never given an empty list
NoPopup ==
    [pc |-> "idle", isLoading |-> FALSE, error |-> "", cartItems |-> <<>>,
     recommendation |-> "", apiKey |-> <<>>, retries |-> 0, checks |-> 0,
     waited |-> 0, confirmed |-> FALSE, extractions |-> 0, extracted |-> <<>>,
     asked |-> <<>>, banners |-> 0]

\* nothing is stored, no time has passed, no content script and no popup run
BrowserIdle ==
    /\ storage = NoStorage
    /\ now = 1
    /\ content = NoContent(<<>>)
    /\ popup = NoPopup

(***************************************************************************)
(* The registry in use: any sequence of its operations on a changing page. *)
(***************************************************************************)
Strategies == {Sephora, SephoraByConfig, Beauty, RawList, Generic}
SiteIds == {e.siteId : e \in Strategies}

MaxRegistered == 3

DomPool ==
    { Page(<<>>, FALSE),
      Page(<< Row(<<>>, WidgetA, <<"$","1","0">>, TRUE, <<"2">>, WidgetA),
              Row(<<>>, WidgetALower, <<"$","5",".","0","0">>, FALSE, <<>>, <<>>) >>,
           TRUE) }

\* the lists given to registerAll
RegisterAllLists ==
    { <<Sephora, Beauty>>, <<Beauty, SephoraByConfig>>, <<RawList, RawList>>,
      <<Generic, Sephora>> }

Init ==
    /\ extractors = <<>>
    /\ fallbackExtractor = NoExtractor
    /\ dom = Page(<<>>, FALSE)
    /\ call = NoCall
    /\ keyOrder = <<>>
    /\ regOrder = <<>>
    /\ BrowserIdle

\* history of register(extractor)
KeyOrderAfter(order, extractor) ==
    IF extractor.siteId \in Range(order) THEN order ELSE Append(order, extractor.siteId)

RegOrderAfter(order, extractor) ==
    IF extractor \in Range(order) THEN order
    ELSE Append(SelectSeq(order, LAMBDA e : e.siteId # extractor.siteId), extractor)

RECURSIVE KeyOrderAfterAll(_, _, _)
KeyOrderAfterAll(order, list, i) ==
    IF i > Len(list) THEN order
    ELSE KeyOrderAfterAll(KeyOrderAfter(order, list[i]), list, i + 1)

RECURSIVE RegOrderAfterAll(_, _, _)
RegOrderAfterAll(order, list, i) ==
    IF i > Len(list) THEN order
    ELSE RegOrderAfterAll(RegOrderAfter(order, list[i]), list, i + 1)

Register(extractor) ==
    /\ MapHas(extractors, extractor.siteId) \/ Len(extractors) < MaxRegistered
    /\ extractors' = MapSet(extractors, extractor)
    /\ keyOrder' = KeyOrderAfter(keyOrder, extractor)
    /\ regOrder' = RegOrderAfter(regOrder, extractor)
    /\ call' = NoCall
    /\ UNCHANGED <<browser, fallbackExtractor, dom>>

RegisterAll(list) ==
    /\ Len(MapSetAll(extractors, list, 1)) <= MaxRegistered
    /\ extractors' = MapSetAll(extractors, list, 1)
    /\ keyOrder' = KeyOrderAfterAll(keyOrder, list, 1)
    /\ regOrder' = RegOrderAfterAll(regOrder, list, 1)
    /\ call' = NoCall
    /\ UNCHANGED <<browser, fallbackExtractor, dom>>

SetFallback(extractor) ==
    /\ fallbackExtractor' = extractor
    /\ call' = NoCall
    /\ UNCHANGED <<browser, extractors, dom, keyOrder, regOrder>>

\* unregister also drops the fallback registered under the siteId
UnregisterWithFallback(siteId) ==
    /\ extractors' = MapDelete(extractors, siteId)
    /\ fallbackExtractor' = IF fallbackExtractor.siteId = siteId THEN NoExtractor
                             ELSE fallbackExtractor
    /\ keyOrder' = SelectSeq(keyOrder, LAMBDA k : k # siteId)
    /\ regOrder' = SelectSeq(regOrder, LAMBDA e : e.siteId # siteId)
    /\ call' = NoCall
    /\ UNCHANGED <<browser, dom>>

Unregister(siteId) ==
    /\ extractors' = MapDelete(extractors, siteId)
    /\ keyOrder' = SelectSeq(keyOrder, LAMBDA k : k # siteId)
    /\ regOrder' = SelectSeq(regOrder, LAMBDA e : e.siteId # siteId)
    /\ call' = NoCall
    /\ UNCHANGED <<browser, fallbackExtractor, dom>>

Clear ==
    /\ extractors' = <<>>
    /\ fallbackExtractor' = NoExtractor
    /\ keyOrder' = <<>>
    /\ regOrder' = <<>>
    /\ call' = NoCall
    /\ UNCHANGED <<browser, dom>>

\* findExtractor keeps the extractor it resolved as the fallback of later calls
FindExtractorCaching(hostname) ==
    /\ LET f == findExtractor(extractors, fallbackExtractor, hostname)
       IN  /\ call' = [NoCall EXCEPT !.op = "findExtractor", !.hostname = hostname,
                                     !.threw = f.threw, !.error = f.error,
                                     !.found = f.extractor]
           /\ fallbackExtractor' = f.extractor
    /\ UNCHANGED <<browser, extractors, dom, keyOrder, regOrder>>

FindExtractor(hostname) ==
    /\ LET f == findExtractor(extractors, fallbackExtractor, hostname)
       IN  call' = [NoCall EXCEPT !.op = "findExtractor", !.hostname = hostname,
                                  !.threw = f.threw, !.error = f.error,
                                  !.found = f.extractor]
    /\ UNCHANGED <<browser, extractors, fallbackExtractor, dom, keyOrder, regOrder>>

ExtractCall(hostname) ==
    /\ call' = [RegistryExtract(extractors, fallbackExtractor, dom, hostname)
                    EXCEPT !.op = "extract"]
    /\ UNCHANGED <<browser, extractors, fallbackExtractor, dom, keyOrder, regOrder>>

ExtractItems(hostname) ==
    /\ call' = [RegistryExtractItems(extractors, fallbackExtractor, dom, hostname)
                    EXCEPT !.op = "extractItems"]
    /\ UNCHANGED <<browser, extractors, fallbackExtractor, dom, keyOrder, regOrder>>

\* what the call before this one selected and returned, when it was the same call
Previous(c, op, hostname) ==
    IF c.op = op /\ c.hostname = hostname
    THEN <<[found |-> c.found, items |-> c.items]>>
    ELSE <<>>

\* a second call in a row finds the elements already processed and returns nothing
EntryPointOnce(hostname) ==
    /\ call' = [(IF call.op = "__CC_extractCartItems"
                 THEN [NoCall EXCEPT !.hostname = hostname]
                 ELSE CCExtractCartItems(extractors, fallbackExtractor, dom, hostname))
                    EXCEPT !.op = "__CC_extractCartItems",
                           !.previous = Previous(call, "__CC_extractCartItems", hostname)]
    /\ UNCHANGED <<browser, extractors, fallbackExtractor, dom, keyOrder, regOrder>>

\* the popup calls window.__CC_extractCartItems() on a page of this hostname
EntryPoint(hostname) ==
    /\ call' = [CCExtractCartItems(extractors, fallbackExtractor, dom, hostname)
                    EXCEPT !.op = "__CC_extractCartItems",
                           !.previous = Previous(call, "__CC_extractCartItems", hostname)]
    /\ UNCHANGED <<browser, extractors, fallbackExtractor, dom, keyOrder, regOrder>>

IsSupported(hostname) ==
    /\ call' = [NoCall EXCEPT !.op = "isSupported", !.hostname = hostname,
                              !.returned = isSupported(extractors, hostname)]
    /\ UNCHANGED <<browser, extractors, fallbackExtractor, dom, keyOrder, regOrder>>

GetById(siteId) ==
    /\ call' = [NoCall EXCEPT !.op = "getById", !.input = siteId,
                              !.found = MapGet(extractors, siteId)]
    /\ UNCHANGED <<browser, extractors, fallbackExtractor, dom, keyOrder, regOrder>>

GetAllExtractors ==
    /\ call' = [NoCall EXCEPT !.op = "getAllExtractors", !.returned = extractors]
    /\ UNCHANGED <<browser, extractors, fallbackExtractor, dom, keyOrder, regOrder>>

GetSupportedSites ==
    /\ call' = [NoCall EXCEPT !.op = "getSupportedSites",
                              !.returned = [i \in DOMAIN extractors |-> extractors[i].siteId]]
    /\ UNCHANGED <<browser, extractors, fallbackExtractor, dom, keyOrder, regOrder>>

GetInfo ==
    /\ call' = [NoCall EXCEPT !.op = "getInfo",
                              !.returned = getInfo(extractors, fallbackExtractor)]
    /\ UNCHANGED <<browser, extractors, fallbackExtractor, dom, keyOrder, regOrder>>

\* the page changes under the content script
SetDom(document) ==
    /\ dom' = document
    /\ call' = NoCall
    /\ UNCHANGED <<browser, extractors, fallbackExtractor, keyOrder, regOrder>>

Next ==
    \/ \E e \in Strategies : Register(e)
    \/ \E list \in RegisterAllLists : RegisterAll(list)
    \/ \E e \in Strategies : SetFallback(e)
    \/ \E siteId \in SiteIds : Unregister(siteId)
    \/ Clear
    \/ \E h \in Hostnames : FindExtractor(h)
    \/ \E h \in Hostnames : ExtractCall(h)
    \/ \E h \in Hostnames : ExtractItems(h)
    \/ \E h \in Hostnames : EntryPoint(h)
    \/ \E d \in DomPool : SetDom(d)

Spec == Init /\ [][Next]_vars

(***************************************************************************)
(* The whole interface of the registry, on a page that does not change.    *)
(***************************************************************************)
NextRegistry ==
    \/ \E e \in Strategies : Register(e)
    \/ \E list \in RegisterAllLists : RegisterAll(list)
    \/ \E e \in Strategies : SetFallback(e)
    \/ \E siteId \in SiteIds : Unregister(siteId)
    \/ Clear
    \/ \E h \in Hostnames : FindExtractor(h)
    \/ \E h \in Hostnames : ExtractCall(h)
    \/ \E h \in Hostnames : ExtractItems(h)
    \/ \E h \in Hostnames : IsSupported(h)
    \/ \E siteId \in SiteIds : GetById(siteId)
    \/ GetAllExtractors
    \/ GetSupportedSites
    \/ GetInfo

SpecRegistry == Init /\ [][NextRegistry]_vars

(***************************************************************************)
(* One strategy on one page: extract() of each strategy class on every     *)
(* page of up to MaxItems cart lines.                                      *)
(***************************************************************************)
ExtractStrategies == {Sephora, Safeway, BestBuy, Ulta, Generic, SephoraByConfig, Beauty, Broken}

InitExtract ==
    /\ extractors = <<>>
    /\ fallbackExtractor = NoExtractor
    /\ dom \in Pages
    /\ call = NoCall
    /\ keyOrder = <<>>
    /\ regOrder = <<>>
    /\ BrowserIdle

\* extractor.extract() where it runs: inside extractWithMetadata
StrategyExtract(extractor) ==
    /\ call' = [NoCall EXCEPT !.op = "strategy.extract", !.found = extractor,
                              !.invoked = <<extractor>>,
                              !.tried = SelectorsTried(ItemSelectors(extractor), dom, 1),
                              !.threw = Extract(extractor, dom).threw,
                              !.items = Extract(extractor, dom).items,
                              !.result = extractWithMetadata(extractor, dom)]
    /\ UNCHANGED <<browser, extractors, fallbackExtractor, dom, keyOrder, regOrder>>

NextExtract == \E e \in ExtractStrategies : StrategyExtract(e)

SpecExtract == InitExtract /\ [][NextExtract]_vars

(***************************************************************************)
(* deduplicateItems on every list of up to MaxListLength records           *)
(***************************************************************************)
MaxListLength == 3

ItemPool ==
    {CartItem(name, price, quantity) :
        name \in {WidgetA, WidgetALower, WidgetB, <<"W","I","D","G","E","T"," ","B"," ">>},
        price \in {<<>>, <<"$","1","0">>},
        quantity \in {0, 2}}

InitDedup ==
    /\ extractors = <<>>
    /\ fallbackExtractor = NoExtractor
    /\ dom = Page(<<>>, FALSE)
    /\ call \in {[NoCall EXCEPT !.input = items] : items \in SeqsUpTo(ItemPool, MaxListLength)}
    /\ keyOrder = <<>>
    /\ regOrder = <<>>
    /\ BrowserIdle

DeduplicateItems ==
    /\ call.op = "none"
    /\ call' = [call EXCEPT !.op = "deduplicateItems", !.items = deduplicateItems(call.input)]
    /\ UNCHANGED <<browser, extractors, fallbackExtractor, dom, keyOrder, regOrder>>

SpecDedup == InitDedup /\ [][DeduplicateItems]_vars

(***************************************************************************)
(* extractQuantityFromInput on null and on every input, select and other   *)
(* element whose value or text has up to MaxQuantityText characters        *)
(***************************************************************************)
MaxQuantityText == 3

QuantityChars == {"0", "2", "-", " ", "x"}

QuantityNodes ==
    {NullNode} \cup
    UNION { {InputNode(text), SelectNode(text), TextNode(text)} :
            text \in SeqsUpTo(QuantityChars, MaxQuantityText) }

InitQuantity ==
    /\ extractors = <<>>
    /\ fallbackExtractor = NoExtractor
    /\ dom = Page(<<>>, FALSE)
    /\ call \in {[NoCall EXCEPT !.input = node] : node \in QuantityNodes}
    /\ keyOrder = <<>>
    /\ regOrder = <<>>
    /\ BrowserIdle

ExtractQuantityFromInput ==
    /\ call.op = "none"
    /\ call' = [call EXCEPT !.op = "extractQuantityFromInput",
                            !.value = extractQuantityFromInput(call.input)]
    /\ UNCHANGED <<browser, extractors, fallbackExtractor, dom, keyOrder, regOrder>>

SpecQuantity == InitQuantity /\ [][ExtractQuantityFromInput]_vars

(***************************************************************************)
(* GenericExtractor.extract on pages of up to MaxCandidates elements: the  *)
(* item elements of one cart container, and candidates outside of it       *)
(***************************************************************************)
MaxCandidates == 22

\* how the names of the elements of a container repeat
NameModes == {"distinct", "pairs", "case", "noise"}

ItemNamed(k) == <<"I", "t", "e", "m", " ", Upper[k]>>

\* the name of the i-th element of the container
NameAt(mode, i) ==
    CASE mode = "distinct" -> ItemNamed(i)
      [] mode = "pairs" -> ItemNamed((i + 1) \div 2)
      [] mode = "case" -> IF i % 2 = 1 THEN ItemNamed(i)
                          ELSE <<" ">> \o toLowerCase(ItemNamed(i - 1)) \o <<" ">>
      [] mode = "noise" -> <<"R", "e", "m", "o", "v", "e">>

PricedRow(name) == Row(<<>>, name, <<"$", "5", ".", "0", "0">>, FALSE, <<>>, <<>>)

\* a document with one cart container of n item elements and m candidates outside it
GenericPage(mode, n, m) ==
    LET inside == [i \in 1..n |-> ItemElement(PricedRow(NameAt(mode, i)))]
        outside == [j \in 1..m |->
                        ItemElement(PricedRow(<<"E", "x", "t", "r", "a", " ", Upper[j]>>))]
        cart == [q |-> NoNodes,
                 qa |-> [sel \in {containerItemSelector} |-> inside],
                 attrs |-> NoAttributes,
                 textContent |-> <<>>]
    IN  [sel \in {candidateSelector} |-> inside \o outside]
        @@ [sel \in {"[id*=\"cart\"]"} |-> <<cart>>]

GenericPages ==
    {GenericPage(mode, n, m) :
        mode \in NameModes,
        <<n, m>> \in {<<n, m>> \in (0..MaxCandidates) \X (0..MaxCandidates) :
                        n + m <= MaxCandidates /\ (m = 0 \/ n <= 2 \/ n + m = MaxCandidates)}}

InitGeneric ==
    /\ extractors = <<>>
    /\ fallbackExtractor = NoExtractor
    /\ dom \in GenericPages
    /\ call = NoCall
    /\ keyOrder = <<>>
    /\ regOrder = <<>>
    /\ BrowserIdle

\* new GenericExtractor().extract()
GenericExtractCall ==
    /\ call.op = "none"
    /\ call' = [NoCall EXCEPT !.op = "GenericExtractor.extract", !.found = Generic,
                              !.invoked = <<Generic>>,
                              !.items = GenericExtract(dom).items,
                              !.scans = ScansRun(findItemsInCartContainers(dom))]
    /\ UNCHANGED <<browser, extractors, fallbackExtractor, dom, keyOrder, regOrder>>

SpecGeneric == InitGeneric /\ [][GenericExtractCall]_vars

(***************************************************************************)
(* BaseExtractor.canHandle of a strategy with up to MaxPatterns            *)
(* urlPatterns on hostnames of up to MaxHostLength characters              *)
(***************************************************************************)
MaxHostLength == 4
MaxPatterns == 2

HostChars == {"a", "A", "b", "."}

ExampleShop == <<"e","x","a","m","p","l","e","-","s","h","o","p",".","c","o","m">>

PatternPool ==
    { <<"a">>, <<"B">>, <<"a", "b">>, <<"A", ".">>, <<".", "b", "a">>, ExampleShop }

HostPool ==
    SeqsUpTo(HostChars, MaxHostLength)
    \cup { <<"w","w","w",".">> \o ExampleShop,
           <<"W","W","W",".","E","x","a","m","p","l","e","-","S","h","o","p",".","C","O","M">> }

\* a strategy of a class that inherits canHandle, with these urlPatterns
StrategyWith(patterns) ==
    [id |-> "ConfigExtractor(site)", kind |-> "config", siteId |-> "site",
     urlPatterns |-> patterns, config |-> NoConfig]

InitCanHandle ==
    /\ extractors = <<>>
    /\ fallbackExtractor = NoExtractor
    /\ dom = Page(<<>>, FALSE)
    /\ call \in {[NoCall EXCEPT !.found = StrategyWith(patterns), !.hostname = hostname] :
                    patterns \in SeqsUpTo(PatternPool, MaxPatterns), hostname \in HostPool}
    /\ keyOrder = <<>>
    /\ regOrder = <<>>
    /\ BrowserIdle

\* strategy.canHandle(hostname)
CanHandleCall ==
    /\ call.op = "none"
    /\ call' = [call EXCEPT !.op = "canHandle",
                            !.returned = canHandle(call.found, call.hostname)]
    /\ UNCHANGED <<browser, extractors, fallbackExtractor, dom, keyOrder, regOrder>>

SpecCanHandle == InitCanHandle /\ [][CanHandleCall]_vars

(***************************************************************************)
(* getActiveCards, with and without forceRefresh, on every answer of the   *)
(* database of up to MaxCards rows, as the clock moves and the storage is  *)
(* cleared                                                                 *)
(***************************************************************************)
MaxCards == 2
MaxHours == 2

CardRows ==
    { CardRow("cash", 0, <<>>),
      CardRow("travel", 95, <<"M","i","l","e","s">>) }

Responses ==
    {Unconfigured, QueryError("timeout")}
    \cup {QueryData(rows) : rows \in SeqsUpTo(CardRows \cup {NullRow}, MaxCards)}

\* the times of day the clock shows: the first millisecond, and each whole
\* hour with the two milliseconds after it
Instants == {1} \cup {k * ONE_HOUR + e : k \in 1..MaxHours, e \in 0..2}

\* the popup or the background worker asks for the active cards
GetActiveCards(forceRefresh, response) ==
    /\ LET r == getActiveCards(storage, now, forceRefresh, response)
       IN  /\ storage' = r.storage
           /\ call' = [NoCall EXCEPT !.op = "getActiveCards",
                                     !.input = [forceRefresh |-> forceRefresh,
                                                response |-> response,
                                                storage |-> storage, now |-> now],
                                     !.threw = r.outcome.threw,
                                     !.error = r.outcome.error,
                                     !.returned = r.outcome.cards,
                                     !.queried = r.queried]
    /\ UNCHANGED <<now, content, popup, extractors, fallbackExtractor, dom, keyOrder, regOrder>>

\* time passes, or the clock of the machine is set
SetClock(instant) ==
    /\ instant # now
    /\ now' = instant
    /\ call' = NoCall
    /\ UNCHANGED <<storage, content, popup, extractors, fallbackExtractor, dom, keyOrder, regOrder>>

ClearAllStorage ==
    /\ storage # NoStorage
    /\ storage' = clearAllStorage(storage)
    /\ call' = NoCall
    /\ UNCHANGED <<now, content, popup, extractors, fallbackExtractor, dom, keyOrder, regOrder>>

NextCards ==
    \/ \E forceRefresh \in BOOLEAN, response \in Responses :
            GetActiveCards(forceRefresh, response)
    \/ \E instant \in Instants : SetClock(instant)
    \/ ClearAllStorage

SpecCards == Init /\ [][NextCards]_vars

(***************************************************************************)
(* ConfigExtractor.extract under every configuration of a pool, on every   *)
(* page of up to MaxItems cart lines                                       *)
(***************************************************************************)
ShopConfig ==
    [NoConfig EXCEPT !.itemSelector = "[data-test=\"cart-item\"]",
                     !.nameSelector = ".product-name",
                     !.priceSelector = ".product-price",
                     !.quantitySelector = "input.quantity"]

\* with and without a brand selector, under each value of combineBrandName,
\* with selectors that are no CSS selectors, with a custom name extractor, and
\* with an item selector that matches nothing
ConfigPool ==
    { [ShopConfig EXCEPT !.brandSelector = b, !.combineBrandName = c, !.priceSelector = p] :
        b \in {"", ".product-brand", "[["}, c \in {"true", "false", "unset"},
        p \in {".product-price", "[["} }
    \cup { [ShopConfig EXCEPT !.customNameExtractor = "data-name"],
           [ShopConfig EXCEPT !.itemSelector = ".cart-row"] }

\* new ConfigExtractor(config)
ConfigStrategy(config) ==
    [id |-> "ConfigExtractor(shop)", kind |-> "config", siteId |-> "shop",
     urlPatterns |-> << ExampleShop >>, config |-> config]

\* extract(), with what extractItem made of each matched element
ConfigExtractCall(config) ==
    /\ call.op = "none"
    /\ LET itemElements == querySelectorAll(dom, config.itemSelector)
       IN  call' = [NoCall EXCEPT !.op = "ConfigExtractor.extract",
                                  !.found = ConfigStrategy(config),
                                  !.input = itemElements,
                                  !.returned = [i \in DOMAIN itemElements |->
                                                    ConfigExtractItem(config, itemElements[i])],
                                  !.threw = ConfigExtract(config, dom).threw,
                                  !.items = ConfigExtract(config, dom).items]
    /\ UNCHANGED <<browser, extractors, fallbackExtractor, dom, keyOrder, regOrder>>

NextConfig == \E config \in ConfigPool : ConfigExtractCall(config)

SpecConfig == InitExtract /\ [][NextConfig]_vars

(***************************************************************************)
(* Every strategy on pages of up to MaxElements cart lines of which some   *)
(* are malformed: building a record from them raises an exception.         *)
(***************************************************************************)
MaxElements == 3

MalformedElement ==
    [q |-> NoNodes, qa |-> NoElements, attrs |-> NoAttributes, textContent |-> <<>>,
     malformed |-> TRUE]

ElementPool ==
    { ItemElement(Row(<<>>, WidgetA, <<"$","1","0">>, TRUE, <<"2">>, WidgetA)),
      ItemElement(Row(<<"A","c","m","e">>, WidgetB, <<"$","5",".","0","0">>, FALSE, <<>>, <<>>)),
      ItemElement(Row(<<>>, <<"a","b">>, <<>>, FALSE, <<>>, <<>>)),
      MalformedElement }

MalformedPages ==
    {PageOf(elements, c) : elements \in SeqsUpTo(ElementPool, MaxElements), c \in BOOLEAN}

PerItemStrategies == {Sephora, Safeway, BestBuy, Ulta, ConfigStrategy(ShopConfig), Generic}

InitMalformed ==
    /\ extractors = <<>>
    /\ fallbackExtractor = NoExtractor
    /\ dom \in MalformedPages
    /\ call = NoCall
    /\ keyOrder = <<>>
    /\ regOrder = <<>>
    /\ BrowserIdle

NextMalformed == \E e \in PerItemStrategies : StrategyExtract(e)

SpecMalformed == InitMalformed /\ [][NextMalformed]_vars

(***************************************************************************)
(* The content script in a tab: its top-level statements in their order,   *)
(* then the calls of the functions it put on window and the messages its   *)
(* listener receives; the tab may load another page at any time.           *)
(***************************************************************************)
\* the strategies initializeExtractors registers, in its order
ContentStrategies == <<Sephora, Safeway, BestBuy, Ulta>>

\* initializeExtractors() that leaves out registry.setFallback
InitializeExtractorsNoFallback ==
    /\ content.pc = "initializeExtractors"
    /\ extractors' = MapSetAll(extractors, ContentStrategies, 1)
    /\ keyOrder' = KeyOrderAfterAll(keyOrder, ContentStrategies, 1)
    /\ regOrder' = RegOrderAfterAll(regOrder, ContentStrategies, 1)
    /\ content' = [content EXCEPT !.pc = "__CC_extractCartItems"]
    /\ call' = NoCall
    /\ UNCHANGED <<fallbackExtractor, dom, storage, now, popup>>

\* initializeExtractors(): three register calls, registerAll of the config
\* strategies, setFallback
InitializeExtractors ==
    /\ content.pc = "initializeExtractors"
    /\ extractors' = MapSetAll(extractors, ContentStrategies, 1)
    /\ fallbackExtractor' = Generic
    /\ keyOrder' = KeyOrderAfterAll(keyOrder, ContentStrategies, 1)
    /\ regOrder' = RegOrderAfterAll(regOrder, ContentStrategies, 1)
    /\ content' = [content EXCEPT !.pc = "__CC_extractCartItems"]
    /\ call' = NoCall
    /\ UNCHANGED <<dom, storage, now, popup>>

\* the statement at pc runs: one more name on window (or the listener), then next
Defined(c, name, next) == [c EXCEPT !.defined = @ \cup {name}, !.pc = next]

DefineExtractCartItems ==
    /\ content.pc = "__CC_extractCartItems"
    /\ content' = Defined(content, "__CC_extractCartItems", "__CC_getRegistryInfo")
    /\ call' = NoCall
    /\ UNCHANGED <<extractors, fallbackExtractor, dom, keyOrder, regOrder, storage, now, popup>>

DefineGetRegistryInfo ==
    /\ content.pc = "__CC_getRegistryInfo"
    /\ content' = Defined(content, "__CC_getRegistryInfo", "__CC_createBanner")
    /\ call' = NoCall
    /\ UNCHANGED <<extractors, fallbackExtractor, dom, keyOrder, regOrder, storage, now, popup>>

DefineCreateBanner ==
    /\ content.pc = "__CC_createBanner"
    /\ content' = Defined(content, "__CC_createBanner", "onMessage")
    /\ call' = NoCall
    /\ UNCHANGED <<extractors, fallbackExtractor, dom, keyOrder, regOrder, storage, now, popup>>

AddMessageListener ==
    /\ content.pc = "onMessage"
    /\ content' = Defined(content, "onMessage", "__CC_DEBUG")
    /\ call' = NoCall
    /\ UNCHANGED <<extractors, fallbackExtractor, dom, keyOrder, regOrder, storage, now, popup>>

SetDebug ==
    /\ content.pc = "__CC_DEBUG"
    /\ content' = Defined(content, "__CC_DEBUG", "loaded")
    /\ call' = NoCall
    /\ UNCHANGED <<extractors, fallbackExtractor, dom, keyOrder, regOrder, storage, now, popup>>

\* window.__CC_extractCartItems?.() || []
ExtractCartItemsIfDefined(c, map, fallback, document) ==
    IF "__CC_extractCartItems" \in c.defined
    THEN CCExtractCartItems(map, fallback, document, c.hostname).items
    ELSE <<>>

\* window.__CC_createBanner?.(html): the banner of the page afterwards
BannerAfter(c, html) ==
    IF "__CC_createBanner" \in c.defined THEN html ELSE c.banner

\* window.__CC_getRegistryInfo?.() || {}
RegistryInfoIfDefined(c, map, fallback) ==
    IF "__CC_getRegistryInfo" \in c.defined THEN getInfo(map, fallback)
    ELSE [registered |-> 0, sites |-> <<>>, hasFallback |-> FALSE]

BannerHtml == <<"<","d","i","v",">">>

\* the arguments of the sendResponse calls the listener makes for a message
MessageResponses(message, c, map, fallback, document) ==
    IF message.type = "EXTRACT_CART"
    THEN << [success |-> TRUE, data |-> ExtractCartItemsIfDefined(c, map, fallback, document)] >>
    ELSE IF message.type = "CREATE_BANNER"
    THEN << [success |-> TRUE] >>
    ELSE IF message.type = "GET_REGISTRY_INFO"
    THEN << [success |-> TRUE, data |-> RegistryInfoIfDefined(c, map, fallback)] >>
    ELSE <<>>

MessageTypes == {"EXTRACT_CART", "CREATE_BANNER", "GET_REGISTRY_INFO", "BUILD_PROMPT", "CALL_OPENAI"}

\* the listener of chrome.runtime.onMessage runs on a message; it returns true
OnMessage(message) ==
    /\ "onMessage" \in content.defined
    /\ call' = [NoCall EXCEPT !.op = "onMessage", !.input = message,
                              !.returned = MessageResponses(message, content, extractors,
                                                            fallbackExtractor, dom)]
    /\ content' = IF message.type = "CREATE_BANNER"
                  THEN [content EXCEPT !.banner = BannerAfter(content, message.payload)]
                  ELSE content
    /\ UNCHANGED <<extractors, fallbackExtractor, dom, keyOrder, regOrder, storage, now, popup>>

\* window.__CC_extractCartItems(), called from the page's console or by the popup
CallExtractCartItems ==
    /\ "__CC_extractCartItems" \in content.defined
    /\ call' = [CCExtractCartItems(extractors, fallbackExtractor, dom, content.hostname)
                    EXCEPT !.op = "__CC_extractCartItems"]
    /\ UNCHANGED <<extractors, fallbackExtractor, dom, keyOrder, regOrder, storage, now,
                   content, popup>>

\* the tab loads a page: a new window, a new registry, the content script again
Navigate(document, hostname) ==
    /\ dom' = document
    /\ content' = NoContent(hostname)
    /\ extractors' = <<>>
    /\ fallbackExtractor' = NoExtractor
    /\ keyOrder' = <<>>
    /\ regOrder' = <<>>
    /\ call' = NoCall
    /\ UNCHANGED <<storage, now, popup>>

ContentScript ==
    \/ InitializeExtractors
    \/ DefineExtractCartItems
    \/ DefineGetRegistryInfo
    \/ DefineCreateBanner
    \/ AddMessageListener
    \/ SetDebug

InitContent ==
    /\ extractors = <<>>
    /\ fallbackExtractor = NoExtractor
    /\ dom \in DomPool
    /\ call = NoCall
    /\ keyOrder = <<>>
    /\ regOrder = <<>>
    /\ storage = NoStorage
    /\ now = 1
    /\ content \in {NoContent(hostname) : hostname \in Hostnames}
    /\ popup = NoPopup

NextContent ==
    \/ ContentScript
    \/ \E type \in MessageTypes : OnMessage([type |-> type, payload |-> BannerHtml])
    \/ CallExtractCartItems
    \/ \E document \in DomPool, hostname \in Hostnames : Navigate(document, hostname)

SpecContent == InitContent /\ [][NextContent]_vars

(***************************************************************************)
(* The popup: handleGetRecommendation, one step for each await, against    *)
(* the content script of the active tab.  The buttons that start it are    *)
(* not rendered while isLoading is true.                                   *)
(***************************************************************************)
maxRetries == 5
RetryDelay == 200

\* the catch and the finally of handleGetRecommendation
Failed(p, message) ==
    [p EXCEPT !.error = message, !.cartItems = <<>>, !.isLoading = FALSE, !.pc = "done"]

\* setLoading(true); setError(null); setCartItems(null)
StartRun ==
    /\ ~popup.isLoading
    /\ popup' = [NoPopup EXCEPT !.pc = "getOpenAIKey", !.isLoading = TRUE,
                                !.recommendation = popup.recommendation]
    /\ UNCHANGED <<extractors, fallbackExtractor, dom, call, keyOrder, regOrder, storage,
                   now, content>>

GetApiKey ==
    /\ popup.pc = "getOpenAIKey"
    /\ popup' = IF getOpenAIKey(storage) = <<>>
                THEN Failed(popup, "OpenAI API key not configured")
                ELSE [popup EXCEPT !.apiKey = getOpenAIKey(storage), !.pc = "tabs.query"]
    /\ UNCHANGED <<extractors, fallbackExtractor, dom, call, keyOrder, regOrder, storage,
                   now, content>>

\* chrome.tabs.query: there is an active tab with an id and a url, or not
QueryTab(found) ==
    /\ popup.pc = "tabs.query"
    /\ popup' = IF found THEN [popup EXCEPT !.retries = 0, !.pc = "check"]
                ELSE Failed(popup, "No active tab found")
    /\ UNCHANGED <<extractors, fallbackExtractor, dom, call, keyOrder, regOrder, storage,
                   now, content>>

\* the poll goes on to the extraction after any check, failed or not
CheckedOptimistic(p, c) ==
    [p EXCEPT !.checks = @ + 1, !.pc = "extract"]

\* one check of the loop: typeof window.__CC_extractCartItems === 'function'
Checked(p, c) ==
    IF "__CC_extractCartItems" \in c.defined
    THEN [p EXCEPT !.checks = @ + 1, !.confirmed = TRUE, !.pc = "extract"]
    ELSE [p EXCEPT !.checks = @ + 1, !.pc = "wait"]

\* executeScript of the check resolves, or rejects (the tab is gone)
CheckReady(rejected) ==
    /\ popup.pc = "check"
    /\ popup.retries < maxRetries
    /\ popup' = IF rejected THEN Failed(popup, "executeScript") ELSE Checked(popup, content)
    /\ UNCHANGED <<extractors, fallbackExtractor, dom, call, keyOrder, regOrder, storage,
                   now, content>>

\* setTimeout of 200 ms (counted in waited), retries++, then the loop condition
\* and the test after the loop
Wait ==
    /\ popup.pc = "wait"
    /\ popup' = IF popup.retries + 1 < maxRetries
                THEN [popup EXCEPT !.retries = @ + 1, !.waited = @ + RetryDelay,
                                   !.pc = "check"]
                ELSE Failed([popup EXCEPT !.retries = @ + 1, !.waited = @ + RetryDelay],
                            "Content script not loaded. Try refreshing the page.")
    /\ UNCHANGED <<extractors, fallbackExtractor, dom, call, keyOrder, regOrder, storage,
                   now, content>>

\* the empty result is handed to the recommendation like any other
ExtractedAny(p, items) ==
    [p EXCEPT !.extractions = @ + 1, !.extracted = <<items>>, !.cartItems = items,
              !.pc = "getRecommendation"]

\* after the extraction: the error and the end of the run, or setCartItems
Extracted(p, items) ==
    IF Len(items) = 0
    THEN [p EXCEPT !.extractions = @ + 1, !.extracted = <<items>>,
                   !.error = "No cart items found on this page. Try visiting a shopping cart or checkout page.",
                   !.isLoading = FALSE, !.pc = "done"]
    ELSE [p EXCEPT !.extractions = @ + 1, !.extracted = <<items>>, !.cartItems = items,
                   !.pc = "getRecommendation"]

\* executeScript of window.__CC_extractCartItems?.() || []
ExtractFromPage(rejected) ==
    /\ popup.pc = "extract"
    /\ popup' = IF rejected
                THEN Failed([popup EXCEPT !.extractions = @ + 1], "executeScript")
                ELSE Extracted(popup, ExtractCartItemsIfDefined(content, extractors,
                                                                fallbackExtractor, dom))
    /\ UNCHANGED <<extractors, fallbackExtractor, dom, call, keyOrder, regOrder, storage,
                   now, content>>

\* cardAPI.getRecommendation(extractedItems, site, apiKey) resolves or rejects
GetRecommendation(resolved) ==
    /\ popup.pc = "getRecommendation"
    /\ popup' = IF resolved
                THEN [popup EXCEPT !.asked = Append(@, popup.extracted[1]),
                                   !.recommendation = "recommendation",
                                   !.pc = "createBanner"]
                ELSE Failed([popup EXCEPT !.asked = Append(@, popup.extracted[1])],
                            "Failed to get recommendation")
    /\ UNCHANGED <<extractors, fallbackExtractor, dom, call, keyOrder, regOrder, storage,
                   now, content>>

\* executeScript of window.__CC_createBanner?.(html), then the finally
CreateBanner(rejected) ==
    /\ popup.pc = "createBanner"
    /\ popup' = IF rejected THEN Failed([popup EXCEPT !.banners = @ + 1], "executeScript")
                ELSE [popup EXCEPT !.banners = @ + 1, !.isLoading = FALSE, !.pc = "done"]
    /\ content' = IF rejected THEN content
                  ELSE [content EXCEPT !.banner = BannerAfter(content, BannerHtml)]
    /\ UNCHANGED <<extractors, fallbackExtractor, dom, call, keyOrder, regOrder, storage, now>>

\* the two steps of the poll loop
Poll == (\E rejected \in BOOLEAN : CheckReady(rejected)) \/ Wait

ApiKeys == { <<>>, <<"s","k","-","1">> }

InitPopup ==
    /\ extractors = <<>>
    /\ fallbackExtractor = NoExtractor
    /\ dom \in DomPool
    /\ call = NoCall
    /\ keyOrder = <<>>
    /\ regOrder = <<>>
    /\ storage \in {[NoStorage EXCEPT !.openaiKey = key] : key \in ApiKeys}
    /\ now = 1
    /\ content \in {NoContent(hostname) : hostname \in Hostnames}
    /\ popup = NoPopup

NextPopup ==
    \/ ContentScript
    \/ \E document \in DomPool, hostname \in Hostnames : Navigate(document, hostname)
    \/ StartRun
    \/ GetApiKey
    \/ \E found \in BOOLEAN : QueryTab(found)
    \/ Poll
    \/ \E rejected \in BOOLEAN : ExtractFromPage(rejected)
    \/ \E resolved \in BOOLEAN : GetRecommendation(resolved)
    \/ \E rejected \in BOOLEAN : CreateBanner(rejected)

SpecPopup == InitPopup /\ [][NextPopup]_vars

\* every await of the poll loop settles
SpecPopupPolling == SpecPopup /\ WF_vars(Poll)

(***************************************************************************)
(* Properties                                                              *)
(***************************************************************************)
\* the name as the deduplication compares it: trimmed and lower-cased
NameKey(item) == toLowerCase(trim(item.name))

NoDuplicateNames(items) ==
    \A i, j \in DOMAIN items : NameKey(items[i]) = NameKey(items[j]) => i = j

\* no registered strategy's canHandle(hostname) is true
NoneMatches(hostname) == \A i \in DOMAIN extractors : ~canHandle(extractors[i], hostname)

IsRegistered(extractor) == \E i \in DOMAIN extractors : extractors[i] = extractor

\* the first strategy of an order that handles the hostname
FirstHandling(order, hostname) ==
    order[CHOOSE i \in DOMAIN order :
            /\ canHandle(order[i], hostname)
            /\ \A j \in 1..(i - 1) : ~canHandle(order[j], hostname)]

\* C1 as the specification states it: in a call of extractItems, if no
\* registered strategy handles the hostname and a fallback is set, extract() of
\* the fallback runs exactly once and extract() of no registered strategy runs;
\* if a registered strategy handles the hostname, extract() of the fallback
\* does not run.
C1_FallbackNeverWithSpecific ==
    call.op = "extractItems" =>
        /\ (NoneMatches(call.hostname) /\ fallbackExtractor # NoExtractor) =>
                /\ call.invoked = <<fallbackExtractor>>
                /\ \A i \in DOMAIN call.invoked : ~IsRegistered(call.invoked[i])
        /\ ~NoneMatches(call.hostname) =>
                \A i \in DOMAIN call.invoked : call.invoked[i] # fallbackExtractor

\* C1 (amended): a call of extractItems that returns runs exactly one
\* extract(): the fallback's when no registered strategy handles the hostname,
\* and otherwise that of a registered strategy that handles it; the two are
\* different strategies unless the fallback is itself registered.
C1_ExactlyOneExtract ==
    call.op = "extractItems" =>
        /\ (NoneMatches(call.hostname) /\ fallbackExtractor # NoExtractor) =>
                call.invoked = <<fallbackExtractor>>
        /\ ~NoneMatches(call.hostname) =>
                /\ Len(call.invoked) = 1
                /\ IsRegistered(call.invoked[1])
                /\ canHandle(call.invoked[1], call.hostname)
                /\ ~IsRegistered(fallbackExtractor) => call.invoked[1] # fallbackExtractor

\* extractItems fell back while strategies were registered
C1_Witness ==
    /\ call.op = "extractItems"
    /\ Len(extractors) > 0
    /\ NoneMatches(call.hostname)
    /\ call.invoked = <<fallbackExtractor>>
    /\ ~IsRegistered(fallbackExtractor)

\* C2 as the specification states it: findExtractor returns, among the
\* registered strategies that handle the hostname, the one registered earliest.
C2_EarliestRegisteredWins ==
    (call.op = "findExtractor" /\ ~NoneMatches(call.hostname)) =>
        call.found = FirstHandling(regOrder, call.hostname)

\* the strategies under the siteIds in the order in which the siteIds were first registered
StrategiesByKeyOrder == [i \in DOMAIN keyOrder |-> MapGet(extractors, keyOrder[i])]

\* C2 (amended): findExtractor returns the strategy under the first siteId, in
\* the order in which the siteIds now registered were first registered, whose
\* current strategy handles the hostname: a strategy registered under a siteId
\* already there takes the place of the one it replaces.
C2_FirstSiteIdWins ==
    /\ {keyOrder[i] : i \in DOMAIN keyOrder} = {extractors[i].siteId : i \in DOMAIN extractors}
    /\ (call.op = "findExtractor" /\ ~NoneMatches(call.hostname)) =>
            call.found = FirstHandling(StrategiesByKeyOrder, call.hostname)

\* a strategy registered last, under a siteId already there, is found before
\* one registered before it
C2_Witness ==
    /\ call.op = "findExtractor"
    /\ call.found = SephoraByConfig
    /\ Len(regOrder) >= 2
    /\ regOrder[1] = Beauty
    /\ canHandle(Beauty, call.hostname)

\* what extract and extractItems make of the outcome of the strategy's extract()
OutcomeReported(c, outcome) ==
    IF outcome.threw
    THEN /\ c.result.success = FALSE
         /\ c.result.error # ""
         /\ c.result.extractorId = c.found.siteId
         /\ c.result.items = <<>>
         /\ c.items = <<>>
    ELSE /\ c.result.success = TRUE
         /\ c.result.items = outcome.items
         /\ c.op = "extractItems" => c.items = outcome.items

\* C3: when extract() of the strategy selected for the hostname throws,
\* registry.extract returns success = false, an error message, the strategy's
\* siteId as extractorId and no items, and registry.extractItems returns the
\* empty sequence, neither raising; when extract() returns, success = true and
\* the items are exactly those extract() returned.
C3_ThrowBecomesEmptyResult ==
    (call.op \in {"extract", "extractItems"} /\ call.found # NoExtractor) =>
        /\ ~call.threw
        /\ OutcomeReported(call, Extract(call.found, dom))

\* registry.extract selected a strategy whose extract() threw
C3_Witness ==
    /\ call.op = "extract"
    /\ call.found = RawList
    /\ Extract(RawList, dom).threw
    /\ call.result.success = FALSE

\* C4 as the specification states it: extractItems never raises to its caller.
C4_ExtractItemsNeverRaises == call.op = "extractItems" => ~call.threw

\* C4 (amended): extractItems raises exactly when findExtractor does, that is
\* when no registered strategy handles the hostname and no fallback is set,
\* with the error "No fallback extractor registered!"; it returns in every
\* other state, with no items when extract() threw.
C4_RaisesOnlyWithoutStrategy ==
    call.op = "extractItems" =>
        /\ call.threw <=> (NoneMatches(call.hostname) /\ fallbackExtractor = NoExtractor)
        /\ call.threw => (call.error = "No fallback extractor registered!" /\ call.items = <<>>)
        /\ (~call.threw /\ call.result.success = FALSE) => call.items = <<>>

\* extractItems raised on a registry with strategies and no fallback
C4_Witness ==
    /\ call.op = "extractItems"
    /\ call.threw
    /\ Len(extractors) > 0
    /\ fallbackExtractor = NoExtractor

\* what the entry point returns of a call of registry.extractItems
EntryPointReturns(c, inner) ==
    /\ ~c.threw
    /\ c.items = IF inner.threw THEN <<>> ELSE inner.items

\* C5: window.__CC_extractCartItems() never throws: it returns the items of
\* registry.extractItems(hostname) when that call returns and the empty array
\* when that call raises.
C5_EntryPointNeverThrows ==
    call.op = "__CC_extractCartItems" =>
        EntryPointReturns(call,
            RegistryExtractItems(extractors, fallbackExtractor, dom, call.hostname))

\* the entry point returned [] where registry.extractItems raised
C5_Witness ==
    /\ call.op = "__CC_extractCartItems"
    /\ NoneMatches(call.hostname)
    /\ fallbackExtractor = NoExtractor
    /\ call.error = "No fallback extractor registered!"
    /\ ~call.threw
    /\ call.items = <<>>

\* C7 as the specification states it: what extractItems returns holds no two
\* records with the same trimmed, lower-cased name, whatever the strategy.
C7_RegistryDeduplicates ==
    (call.op = "extractItems" /\ ~call.threw) => NoDuplicateNames(call.items)

\* the items of extractItems are those of the strategy's extract(), as they are
ItemsAsExtracted(c, outcome) ==
    /\ c.items = IF outcome.threw THEN <<>> ELSE outcome.items
    /\ Len(c.items) = Len(outcome.items)
    /\ c.found.kind # "rawlist" => NoDuplicateNames(c.items)

\* C7 (amended): extractItems returns the records of the selected strategy's
\* extract() unchanged, every one of them and in their order, the registry
\* removing none: the result has no two records with the same trimmed,
\* lower-cased name when the strategy deduplicates, as the shipped ones do.
C7_RegistryReturnsStrategyItems ==
    (call.op = "extractItems" /\ ~call.threw) =>
        ItemsAsExtracted(call, Extract(call.found, dom))

\* extractItems returned the duplicates of a strategy that does not deduplicate
C7_Witness ==
    /\ call.op = "extractItems"
    /\ call.found = RawList
    /\ Len(call.items) = 2
    /\ NameKey(call.items[1]) = NameKey(call.items[2])

\* C6: the sequence extract() returns, for each shipped strategy (declarative,
\* Sephora, Safeway, Best Buy, generic) and every page, holds no two records
\* whose names are equal after trimming and lower-casing.
C6_NoDuplicateNames ==
    call.op = "strategy.extract" => NoDuplicateNames(call.items)

\* a strategy returned one record of a page whose two cart lines carry the
\* same name in different case
C6_Witness ==
    /\ call.op = "strategy.extract"
    /\ call.found \in {Sephora, Safeway, BestBuy, Ulta}
    /\ Len(dom["section.card"]) = 2
    /\ querySelector(dom["section.card"][1], ".product-name").textContent = WidgetA
    /\ querySelector(dom["section.card"][2], ".product-name").textContent = WidgetALower
    /\ Len(call.items) = 1
    /\ call.items[1].name = WidgetA

\* the indices of the records that are the first with their name
FirstOccurrences(items) ==
    {i \in DOMAIN items : \A j \in 1..(i - 1) : NameKey(items[j]) # NameKey(items[i])}

\* the records at the indices of S, in their order
RECURSIVE RecordsAt(_, _, _)
RecordsAt(items, S, i) ==
    IF i > Len(items) THEN <<>>
    ELSE (IF i \in S THEN <<items[i]>> ELSE <<>>) \o RecordsAt(items, S, i + 1)

\* C8: deduplicateItems returns, unchanged and in the order of the input, the
\* records that are the first with their trimmed, lower-cased name, and no
\* other record; applied to what it returned it changes nothing.
C8_FirstOccurrenceWins ==
    call.op = "deduplicateItems" =>
        /\ call.items = RecordsAt(call.input, FirstOccurrences(call.input), 1)
        /\ deduplicateItems(call.items) = call.items

\* a later record with another price or quantity was dropped for an earlier
\* one of the same name
C8_Witness ==
    /\ call.op = "deduplicateItems"
    /\ Len(call.input) = 3
    /\ Len(call.items) = 2
    /\ NameKey(call.input[1]) = NameKey(call.input[3])
    /\ call.input[1] # call.input[3]
    /\ call.items = <<call.input[1], call.input[2]>>

\* C9 as the specification states it: every record a strategy returns has a
\* name of 3 to 500 characters after trimming that matches no noise pattern.
C9_NamesValidAfterTrim ==
    call.op = "strategy.extract" =>
        \A i \in DOMAIN call.items :
            /\ Len(trim(call.items[i].name)) >= MinNameLength
            /\ Len(trim(call.items[i].name)) <= MaxNameLength
            /\ ~isNoiseText(call.items[i].name)

\* C10 as the specification states it: extractQuantityFromInput returns an
\* integer of at least 1 for every element.
C10_QuantityAtLeastOne ==
    call.op = "extractQuantityFromInput" => call.value >= 1

\* C11 as the specification states it: in every record a strategy returns,
\* quantity is absent or a positive integer.
C11_QuantityPositive ==
    call.op = "strategy.extract" =>
        \A i \in DOMAIN call.items :
            "quantity" \in DOMAIN call.items[i] => call.items[i].quantity >= 1

\* the selectors under which a strategy looks for the quantity of a cart element
QuantitySelectorsOf(extractor) ==
    CASE extractor.kind = "sephora" -> {"select[data-at=\"sku_qty\"]"}
      [] extractor.kind = "safeway" ->
            {".stepper-amount", ".stepper-qty-round", "input[type=\"number\"]"}
      [] extractor.kind = "bestbuy" -> {".fluid-item__quantity select.tb-select"}
      [] extractor.kind = "generic" -> Range(quantitySelectors)
      [] OTHER -> {extractor.config.quantitySelector} \ {""}

\* the quantity a strategy reads of a cart element; 0 for undefined
QuantityOf(extractor, element) ==
    CASE extractor.kind = "sephora" -> extractSephoraQuantity(element)
      [] extractor.kind = "safeway" -> extractSafewayQuantity(element)
      [] extractor.kind = "bestbuy" -> extractBestBuyQuantity(element)
      [] extractor.kind = "generic" -> extractQuantity(element, 1)
      [] OTHER -> ConfigQuantity(extractor.config, element)

\* the cart elements of a document: those its selectors select, and those
\* selected inside them
ElementsOf(document) ==
    LET top == UNION {Range(document[sel]) : sel \in DOMAIN document}
    IN  top \cup UNION {Range(c.qa[sel]) : <<c, sel>> \in {<<c, sel>> \in top \X
                            {"li", containerItemSelector} : sel \in DOMAIN c.qa}}

\* none of the strategy's quantity selectors matches in the element
NoQuantitySource(extractor, element) ==
    /\ extractor.config.customQuantityExtractor = ""
    /\ QuantitySelectorsOf(extractor) \cap DOMAIN element.q = {}

\* quantity absent (0) or 1, and absent for the declarative strategy
IsDefaultQuantity(extractor, quantity) ==
    /\ quantity \in {0, 1}
    /\ extractor.kind = "config" => quantity = 0

RecordQuantity(item) == IF "quantity" \in DOMAIN item THEN item.quantity ELSE 0

\* C12: a cart element whose quantity source does not resolve (no custom
\* quantity extractor; no quantity selector of the strategy matching in it)
\* gives a record with quantity absent or 1, and absent for the declarative
\* strategy; on a page where no element's source resolves, every record
\* returned is such.
C12_QuantityDefault ==
    call.op = "strategy.extract" =>
        /\ \A e \in ElementsOf(dom) :
                NoQuantitySource(call.found, e) =>
                    IsDefaultQuantity(call.found, QuantityOf(call.found, e))
        /\ (\A e \in ElementsOf(dom) : NoQuantitySource(call.found, e)) =>
                \A i \in DOMAIN call.items :
                    IsDefaultQuantity(call.found, RecordQuantity(call.items[i]))

\* the declarative strategy with a quantitySelector returned a record without
\* quantity of an element the selector does not match in
C12_Witness ==
    /\ call.op = "strategy.extract"
    /\ call.found = Ulta
    /\ Ulta.config.quantitySelector = "input.quantity"
    /\ \A e \in ElementsOf(dom) : NoQuantitySource(Ulta, e)
    /\ Len(call.items) = 2
    /\ "quantity" \notin DOMAIN call.items[1]

\* the first n elements of a sequence
FirstN(seq, n) == [i \in 1..(IF Len(seq) < n THEN Len(seq) ELSE n) |-> seq[i]]

\* the records the scans of GenericExtractor.extract collect, before deduplication
CandidateRecords(document) ==
    OrByPricePattern(findItemsInCartContainers(document), document)

\* C13: GenericExtractor.extract() returns at most 20 records, and they are
\* the first 20 of the deduplicated candidate list.
C13_AtMostTwentyOfDeduplicated ==
    call.op = "GenericExtractor.extract" =>
        /\ Len(call.items) <= 20
        /\ call.items = FirstN(deduplicateItems(CandidateRecords(dom)), 20)

\* more than 20 distinct candidates were cut to 20
C13_Witness ==
    /\ call.op = "GenericExtractor.extract"
    /\ Len(deduplicateItems(CandidateRecords(dom))) > 20
    /\ Len(call.items) = 20

\* what extract() ran and returned, given what the container scan found
PriceScanOnlyIfEmpty(c, cartItems) ==
    /\ "findItemsInCartContainers" \in Range(c.scans)
    /\ "findItemsByPricePattern" \in Range(c.scans) <=> Len(cartItems) = 0
    /\ Len(cartItems) > 0 => \A i \in DOMAIN c.items : c.items[i] \in Range(cartItems)

\* C14: GenericExtractor.extract runs the price-pattern scan only when the
\* container scan found no valid item; when the container scan found one, the
\* result holds records of the container scan only.
C14_PriceScanOnlyIfContainersEmpty ==
    call.op = "GenericExtractor.extract" =>
        PriceScanOnlyIfEmpty(call, findItemsInCartContainers(dom))

\* the container scan found items while the price-pattern scan would have
\* found others, and it was not run
C14_Witness ==
    /\ call.op = "GenericExtractor.extract"
    /\ call.scans = <<"findItemsInCartContainers">>
    /\ Len(call.items) = 2
    /\ Len(findItemsByPricePattern(dom)) > 2

\* two characters that are equal once lower-cased
SameLowerCased(a, b) ==
    a = b \/ \E k \in DOMAIN Upper : {a, b} = {Upper[k], Lower[k]}

\* the pattern occurs in the hostname, letter case apart
OccursIn(pattern, hostname) ==
    \E at \in 0..(Len(hostname) - Len(pattern)) :
        \A j \in DOMAIN pattern : SameLowerCased(hostname[at + j], pattern[j])

\* C15: canHandle(hostname) is true if and only if the lower-cased hostname
\* contains one of the strategy's urlPatterns, lower-cased; a strategy without
\* urlPatterns handles no hostname.
C15_CanHandleIffPatternOccurs ==
    call.op = "canHandle" =>
        /\ call.returned <=>
                \E i \in DOMAIN call.found.urlPatterns :
                    OccursIn(call.found.urlPatterns[i], call.hostname)
        /\ call.found.urlPatterns = <<>> => ~call.returned

\* the pattern example-shop.com handles the upper-case hostname
C15_Witness ==
    /\ call.op = "canHandle"
    /\ call.found.urlPatterns = <<ExampleShop>>
    /\ call.hostname # toLowerCase(call.hostname)
    /\ call.returned = TRUE

\* a registered strategy of another class than the generic one handles the hostname
SpecificHandles(hostname) ==
    \E i \in DOMAIN extractors :
        extractors[i].kind # "generic" /\ canHandle(extractors[i], hostname)

\* C16: canHandle of the generic strategy is false for every hostname, so
\* findExtractor returns the generic strategy only as the fallback, after every
\* registered strategy declined, and isSupported is true only of hostnames a
\* strategy of another class handles, also when the generic strategy is registered.
C16_GenericOnlyAsFallback ==
    /\ \A h \in Hostnames : ~canHandle(Generic, h)
    /\ (call.op = "findExtractor" /\ call.found = Generic) =>
            (NoneMatches(call.hostname) /\ fallbackExtractor = Generic)
    /\ call.op = "isSupported" => (call.returned <=> SpecificHandles(call.hostname))

\* isSupported is false with the generic strategy registered and set as fallback
C16_Witness ==
    /\ call.op = "isSupported"
    /\ IsRegistered(Generic)
    /\ fallbackExtractor = Generic
    /\ call.returned = FALSE

\* register(extractor) replaces another strategy registered under its siteId
OverwriteBy(extractor) ==
    /\ MapHas(extractors, extractor.siteId)
    /\ MapGet(extractors, extractor.siteId) # extractor
    /\ Register(extractor)

SiteIdsOf(map) == [i \in DOMAIN map |-> map[i].siteId]

\* what register(extractor) leaves and changes when it replaces a strategy
OverwriteFrame(extractor) ==
    /\ MapGet(extractors', extractor.siteId) = extractor
    /\ Len(extractors') = Len(extractors)
    /\ SiteIdsOf(extractors') = SiteIdsOf(extractors)
    /\ \A i \in DOMAIN extractors :
            extractors[i].siteId # extractor.siteId => extractors'[i] = extractors[i]
    /\ fallbackExtractor' = fallbackExtractor

\* C17 as the specification states it: register(s) under a siteId already
\* registered makes getById(s.siteId) return s, leaves the number and the set of
\* the siteIds, the strategies of the other siteIds and the fallback as they
\* were, and findExtractor does not return the replaced strategy any more.
C17_ReplacedNeverFoundAgain ==
    [][\A e \in Strategies :
            OverwriteBy(e) =>
                /\ OverwriteFrame(e)
                /\ \A h \in Hostnames :
                        findExtractor(extractors', fallbackExtractor', h).extractor
                            # MapGet(extractors, e.siteId)]_vars

\* C17 (amended): register(s) under a siteId already registered makes
\* getById(s.siteId) return s, leaves the number, the set and the order of the
\* siteIds, the strategies of the other siteIds and the fallback as they were,
\* and the replaced strategy is registered no more: findExtractor returns it
\* only where it is the fallback.
C17_OverwriteInPlace ==
    [][\A e \in Strategies :
            OverwriteBy(e) =>
                /\ OverwriteFrame(e)
                /\ \A i \in DOMAIN extractors' :
                        extractors'[i] # MapGet(extractors, e.siteId)
                /\ \A h \in Hostnames :
                        findExtractor(extractors', fallbackExtractor', h).extractor
                            = MapGet(extractors, e.siteId)
                        => fallbackExtractor' = MapGet(extractors, e.siteId)]_vars

\* getById returns the strategy registered last, under a siteId that was
\* registered first with another strategy
C17_Witness ==
    /\ call.op = "getById"
    /\ call.input = "sephora"
    /\ call.found = SephoraByConfig
    /\ Len(keyOrder) >= 2
    /\ keyOrder[1] = "sephora"
    /\ regOrder[Len(regOrder)] = SephoraByConfig

\* findExtractor returned, and the fallback where no registered strategy handles
ResolvesTo(f, hostname, fallback) ==
    /\ ~f.threw
    /\ f.extractor # NoExtractor
    /\ NoneMatches(hostname) => f.extractor = fallback

\* C18 as the specification states it: once a fallback is set, it stays set
\* through register, registerAll, unregister, setFallback and clear, and
\* findExtractor raises for no hostname.
C18_FallbackOnceSet ==
    [][fallbackExtractor # NoExtractor =>
            /\ fallbackExtractor' # NoExtractor
            /\ \A h \in Hostnames :
                    ~findExtractor(extractors', fallbackExtractor', h).threw]_vars

\* C18 (amended): while a fallback is set, findExtractor raises for no hostname
\* and returns the fallback where no registered strategy handles the hostname;
\* setFallback makes its argument the fallback; no operation but clear, which
\* also empties the registry, unsets the fallback, and none but setFallback
\* changes it otherwise.
C18_FallbackUntilClear ==
    /\ [](fallbackExtractor # NoExtractor =>
            \A h \in Hostnames :
                ResolvesTo(findExtractor(extractors, fallbackExtractor, h), h,
                           fallbackExtractor))
    /\ [][/\ \A e \in Strategies : SetFallback(e) => fallbackExtractor' = e
          /\ (fallbackExtractor # NoExtractor /\ fallbackExtractor' = NoExtractor) =>
                extractors' = <<>>
          /\ fallbackExtractor' \notin {fallbackExtractor, NoExtractor} =>
                \E e \in Strategies : SetFallback(e)]_vars

\* findExtractor returned the fallback set before the strategies were registered
C18_Witness ==
    /\ call.op = "findExtractor"
    /\ Len(keyOrder) >= 2
    /\ NoneMatches(call.hostname)
    /\ call.found = fallbackExtractor
    /\ call.found = RawList

ReadOperations ==
    {"findExtractor", "extract", "extractItems", "isSupported", "getById",
     "getAllExtractors", "getSupportedSites", "getInfo"}

\* C20: findExtractor, extract, extractItems, isSupported, getById,
\* getAllExtractors, getSupportedSites and getInfo leave the map of the
\* registry, contents and order, and its fallback as they are; a step that
\* changes either is none of them.
C20_ReadOperationsChangeNothing ==
    [][/\ call'.op \in ReadOperations =>
                (extractors' = extractors /\ fallbackExtractor' = fallbackExtractor)
       /\ (extractors' # extractors \/ fallbackExtractor' # fallbackExtractor) =>
                call'.op = "none"]_vars

\* getInfo reported a registry with strategies and a fallback
C20_Witness ==
    /\ call.op = "getInfo"
    /\ call.returned.registered = Len(extractors)
    /\ Len(extractors) >= 2
    /\ call.returned.hasFallback

\* the database query fails or yields no active cards
QueryFails(response) ==
    \/ response.kind \in {"unconfigured", "error"}
    \/ response.kind = "data" /\ Len(response.data) = 0

\* the age of the cache at the call, in milliseconds
CacheAge(input) == input.now - input.storage.lastCardsFetch

\* C21: when the query of getActiveCards fails or yields no active cards,
\* getActiveCards returns the cached cards if there are any, whatever their
\* age, and raises the error of the query only when nothing is cached; it
\* returns the cache without going to the database only without forceRefresh
\* and when the cache is non-empty and at most one hour old; it never returns
\* an empty list.
C21_CacheFallback ==
    call.op = "getActiveCards" =>
        LET cached == call.input.storage.cachedCards
        IN  /\ call.queried /\ QueryFails(call.input.response) =>
                    IF Len(cached) > 0
                    THEN ~call.threw /\ call.returned = cached
                    ELSE call.threw /\ call.error = FetchCards(call.input.response).error
            /\ call.threw => Len(cached) = 0 /\ call.queried
            /\ ~call.queried =>
                    /\ ~call.input.forceRefresh
                    /\ Len(cached) > 0
                    /\ call.input.storage.lastCardsFetch # 0
                    /\ CacheAge(call.input) <= ONE_HOUR
                    /\ ~call.threw /\ call.returned = cached
                    /\ storage = call.input.storage
            /\ ~call.threw => Len(call.returned) > 0

\* the query fails when the cache is older than an hour, and the cache is returned
C21_Witness ==
    /\ call.op = "getActiveCards"
    /\ call.queried
    /\ call.input.response.kind = "error"
    /\ Len(call.input.storage.cachedCards) > 0
    /\ CacheAge(call.input) > ONE_HOUR
    /\ ~call.threw
    /\ call.returned = call.input.storage.cachedCards

\* the name the specification gives an element whose brand and name texts are these
NameByRule(config, brandText, nameText) ==
    IF brandText # <<>> /\ nameText # <<>> /\ config.combineBrandName \in {"true", "unset"}
    THEN trim(brandText \o <<" ">> \o nameText)
    ELSE IF nameText # <<>> THEN nameText ELSE brandText

BrandTextOf(config, element) ==
    IF config.brandSelector = "" THEN <<>> ELSE extractText(element, config.brandSelector)

\* extractItem gave the element this name, or no record when the name is empty
NamedAs(outcome, name) ==
    IF name = <<>> THEN outcome.items = <<>>
    ELSE outcome.items # <<>> /\ outcome.items[1].name = name

\* C22: for each matched element of a ConfigExtractor without
\* customNameExtractor whose record is built without an exception, the name is
\* "{brand} {name}" (trimmed) when the brand text and the name text both
\* resolve and combineBrandName is true or unset; in every other case it is the
\* name text if that resolves, else the brand text, else there is no record.
C22_BrandAndName ==
    call.op = "ConfigExtractor.extract" /\ call.found.config.customNameExtractor = "" =>
        \A i \in DOMAIN call.input :
            ~call.returned[i].threw =>
                NamedAs(call.returned[i],
                        NameByRule(call.found.config,
                                   BrandTextOf(call.found.config, call.input[i]),
                                   extractText(call.input[i], call.found.config.nameSelector)))

\* with combineBrandName unset one element has both texts and is named by both,
\* and one has only the brand text and still yields a record
C22_Witness ==
    /\ call.op = "ConfigExtractor.extract"
    /\ call.found.config.customNameExtractor = ""
    /\ call.found.config.combineBrandName = "unset"
    /\ \E i \in DOMAIN call.input :
          /\ BrandTextOf(call.found.config, call.input[i]) = <<"A","c","m","e">>
          /\ extractText(call.input[i], ".product-name") = WidgetB
          /\ call.returned[i].items # <<>>
          /\ call.returned[i].items[1].name = <<"A","c","m","e"," ">> \o WidgetB
    /\ \E i \in DOMAIN call.input :
          /\ BrandTextOf(call.found.config, call.input[i]) # <<>>
          /\ extractText(call.input[i], ".product-name") = <<>>
          /\ call.returned[i].items # <<>>

\* the name that resolves for a matched element
ResolvedName(config, element) ==
    IF config.customNameExtractor # ""
    THEN getAttribute(element, config.customNameExtractor)
    ELSE NameByRule(config, BrandTextOf(config, element),
                    extractText(element, config.nameSelector))

\* the record extractItem made of each matched element, nameless where it made none
RecordsMade(outcomes) ==
    [i \in DOMAIN outcomes |->
        IF outcomes[i].items # <<>> THEN outcomes[i].items[1] ELSE [name |-> <<>>]]

\* the matched elements for which a non-empty name resolves and whose record
\* isValidItem accepts
AcceptedElements(c) ==
    {i \in DOMAIN c.input :
        /\ ~c.returned[i].threw
        /\ ResolvedName(c.found.config, c.input[i]) # <<>>
        /\ isValidItem(RecordsMade(c.returned)[i])}

\* C23: ConfigExtractor.extract makes a record of a matched element exactly
\* when a non-empty name resolves for it (and building it raises nothing), and
\* returns deduplicateItems of the records that isValidItem accepts, in
\* document order; no other element contributes, and the result is empty when
\* itemSelector matches no element.
C23_AcceptedRecordsDeduplicated ==
    call.op = "ConfigExtractor.extract" =>
        /\ ~call.threw
        /\ \A i \in DOMAIN call.input :
              call.returned[i].items # <<>> <=>
                  /\ ~call.returned[i].threw
                  /\ ResolvedName(call.found.config, call.input[i]) # <<>>
        /\ call.items =
              deduplicateItems(RecordsAt(RecordsMade(call.returned), AcceptedElements(call), 1))
        /\ Len(call.input) = 0 => call.items = <<>>

\* of two matched elements with a name one is accepted and returned, the other
\* is rejected by isValidItem
C23_Witness ==
    /\ call.op = "ConfigExtractor.extract"
    /\ Len(call.items) = 1
    /\ \E i, j \in DOMAIN call.input :
          /\ i \in AcceptedElements(call)
          /\ call.items[1] = call.returned[i].items[1]
          /\ call.returned[j].items # <<>>
          /\ ~isValidItem(call.returned[j].items[1])

\* the elements that are not malformed, and the page without its malformed elements
SoundOnly(elements) == SelectSeq(elements, LAMBDA e : ~IsMalformed(e))

Mended(document) ==
    [sel \in DOMAIN document |->
        [i \in DOMAIN SoundOnly(document[sel]) |->
            [SoundOnly(document[sel])[i] EXCEPT
                !.qa = [s \in DOMAIN @ |-> SoundOnly(@[s])]]]]

HasMalformed(document, selector) ==
    \E i \in DOMAIN querySelectorAll(document, selector) :
        IsMalformed(querySelectorAll(document, selector)[i])

\* extract() returned what it returns on the page without the malformed elements
SkipsMalformed(c, document) ==
    /\ ~c.threw
    /\ c.items = Extract(c.found, Mended(document)).items
    /\ c.result.success
    /\ c.result.items = c.items

\* C24: in the declarative, Sephora, Safeway and Best Buy strategies an
\* exception raised while building the record of one matched element is caught
\* for that element only: extract() does not throw, the element is skipped and
\* the records of all other matched elements are returned.
C24_PerItemCatch ==
    /\ call.op = "strategy.extract"
    /\ call.found.kind \in {"config", "sephora", "safeway", "bestbuy"}
    => SkipsMalformed(call, dom)

\* such a strategy met a malformed element and returned the record of another
C24_Witness ==
    /\ call.op = "strategy.extract"
    /\ call.found.kind \in {"sephora", "safeway", "bestbuy"}
    /\ HasMalformed(dom, "[data-at=\"product_refinement\"]")
    /\ Len(call.items) = 2

\* C25: in the generic fallback strategy an exception raised while building
\* the record of one candidate element is caught at the item level: the
\* element is skipped and the records of the other candidates are returned.
C25_GenericPerItemCatch ==
    call.op = "strategy.extract" /\ call.found.kind = "generic"
    => SkipsMalformed(call, dom)

\* C26: a bespoke strategy (Sephora, Safeway, Best Buy) whose primary item
\* selector matches no element tries at least one fallback item selector
\* before it returns an empty result; the selectors are tried in the fixed
\* order of the strategy, up to the first that matches an element.
C26_FallbackSelectorTried ==
    /\ call.op = "strategy.extract"
    /\ call.found.kind \in {"sephora", "safeway", "bestbuy"}
    /\ Len(querySelectorAll(dom, ItemSelectors(call.found)[1])) = 0
    => /\ Len(call.tried) >= 2
       /\ \A i \in DOMAIN call.tried :
             /\ call.tried[i] = ItemSelectors(call.found)[i]
             /\ i < Len(call.tried) => Len(querySelectorAll(dom, call.tried[i])) = 0

\* C28: whenever the content script has defined window.__CC_extractCartItems,
\* initializeExtractors has run to its end: the Sephora, Safeway, Best Buy and
\* config strategies are registered, each under its own siteId, and the
\* generic strategy is the fallback, so that findExtractor raises for no
\* hostname.
C28_InitializedBeforeEntryPoint ==
    "__CC_extractCartItems" \in content.defined =>
        /\ Len(extractors) = Len(ContentStrategies)
        /\ \A i \in DOMAIN ContentStrategies :
              MapGet(extractors, ContentStrategies[i].siteId) = ContentStrategies[i]
        /\ \A i, j \in DOMAIN extractors :
              extractors[i].siteId = extractors[j].siteId => i = j
        /\ fallbackExtractor = Generic
        /\ \A hostname \in Hostnames :
              ~findExtractor(extractors, fallbackExtractor, hostname).threw

\* the entry point was called on a page no registered strategy handles, and
\* the generic fallback extracted
C28_Witness ==
    /\ "__CC_extractCartItems" \in content.defined
    /\ call.op = "__CC_extractCartItems"
    /\ NoneMatches(content.hostname)
    /\ call.found = Generic
    /\ call.invoked = <<Generic>>

\* C30: the listener of the content script calls sendResponse exactly once for
\* every message, whatever its type, and answers EXTRACT_CART, CREATE_BANNER
\* and GET_REGISTRY_INFO with success true.
C30_EveryMessageAnswered ==
    call.op = "onMessage" =>
        /\ Len(call.returned) = 1
        /\ call.input.type \in {"EXTRACT_CART", "CREATE_BANNER", "GET_REGISTRY_INFO"}
              => call.returned[1].success

\* C27: handleGetRecommendation checks for the entry point at most 5 times and
\* waits 200 ms after each failed check; it always leaves the poll loop; it
\* invokes the extraction only after a check found the callable, and after 5
\* failed checks it reports 'Content script not loaded' and invokes no
\* extraction in that run.
InPoll == popup.pc \in {"check", "wait"}

FailedChecks == IF popup.pc = "wait" THEN popup.retries + 1 ELSE popup.retries

PollBounded ==
    /\ popup.checks <= maxRetries
    /\ popup.waited = RetryDelay * popup.retries
    /\ InPoll => popup.checks = FailedChecks
    /\ (popup.pc = "extract" \/ popup.extractions > 0) => popup.confirmed
    /\ popup.confirmed => popup.checks = popup.retries + 1
    /\ popup.retries = maxRetries
          => /\ popup.error = "Content script not loaded. Try refreshing the page."
             /\ popup.pc = "done"
             /\ ~popup.confirmed
             /\ popup.extractions = 0

C27_BoundedPoll == [] PollBounded /\ (InPoll ~> ~InPoll)

\* five checks failed, each followed by a wait, and the run ended with the error
C27_Witness ==
    /\ popup.retries = maxRetries
    /\ popup.checks = maxRetries
    /\ popup.waited = maxRetries * RetryDelay
    /\ popup.pc = "done"

\* C29: in a run of handleGetRecommendation the recommendation is asked for at
\* most once, only after the extraction returned at least one item, and with
\* those items; an empty extraction sets the 'No cart items found' error, leaves
\* cartItems null and ends the run with no recommendation asked for and no
\* banner created.
ExtractionReturned == Len(popup.extracted) > 0

ReturnedEmpty == ExtractionReturned /\ Len(popup.extracted[1]) = 0

C29_RecommendationAfterItems ==
    /\ Len(popup.asked) <= 1
    /\ Len(popup.extracted) <= 1
    /\ \A i \in DOMAIN popup.asked :
          /\ ExtractionReturned
          /\ Len(popup.extracted[1]) >= 1
          /\ popup.asked[i] = popup.extracted[1]
    /\ popup.banners > 0 => Len(popup.asked) = 1
    /\ ReturnedEmpty
          => /\ popup.error = "No cart items found on this page. Try visiting a shopping cart or checkout page."
             /\ popup.cartItems = <<>>
             /\ popup.pc = "done"
             /\ ~popup.isLoading
             /\ popup.asked = <<>>
             /\ popup.banners = 0

\* the entry point was defined, found by a check, and returned no item
C29_Witness ==
    /\ ReturnedEmpty
    /\ popup.confirmed
    /\ "__CC_extractCartItems" \in content.defined
    /\ popup.pc = "done"

=============================================================================
